---- MODULE Spec2Model ----
(***************************************************************************)
(* Lifegate WhatsApp triage platform: the patient conversation state       *)
(* machine (services/message_handler.py), the consultation finalisation    *)
(* and payment path (services/workflow_service.py,                         *)
(* apps/subscriptions/views.py) and the clinician review / modification /  *)
(* send workflow (apps/clinician/whatsapp_handler.py) with its validator   *)
(* (apps/assessments/validator.py).                                        *)
(*                                                                         *)
(* Database tables are sequences of records in creation order; a row's id  *)
(* is its index.  One action is one handler invocation.                    *)
(***************************************************************************)
EXTENDS Integers, Sequences, FiniteSets, TLC

\* ------------------------------------------------------------------ bounds
MaxConversations == 1      \* ConversationSession rows created in a run
MaxPayments == 1           \* PaymentHistory rows created in a run
MaxModSessions == 1        \* ModificationSession rows created while an assessment is reviewed
MaxAgingSessions == 2      \* ModificationSession rows created in a run where sessions age
MaxItems == 2              \* longest content block an "add" may produce
MaxTime == 3               \* clock ticks (hours) in a run
MaxDispatch == 2           \* patient-facing assessment dispatches counted per assessment
MaxAsked == 4              \* value of ai_questions_asked a conversation may reach
MaxCredits == 1            \* consultation credits a patient starts with
MaxIssues == 2             \* longest list of issues the severity is computed for

\* ------------------------------------------------------- program constants
MAX_TRIAGE_QUESTIONS == 3  \* settings.MAX_TRIAGE_QUESTIONS
TTL == 1                   \* timedelta(hours=1)

Patients == {"p1"}
Clinicians == {"c1"}
NoClinician == "none"

\* ------------------------------------------------------------ message text
\* Tables over the texts of the model: the inbound texts of Replies and the
\* bodies a clinician types.
\* str.upper() on the inbound texts
Upper(m) ==
    CASE m = "male" -> "MALE"
      [] m = "i have a headache" -> "I HAVE A HEADACHE"
      [] m = "severe chest pain" -> "SEVERE CHEST PAIN"
      [] m = "connect me to a doctor" -> "CONNECT ME TO A DOCTOR"
      [] OTHER -> m

\* str.lower() on the inbound texts
Lower(m) ==
    CASE m = "GET STARTED" -> "get started"
      [] m = "DECLINE" -> "decline"
      [] m = "YES" -> "yes"
      [] m = "NO" -> "no"
      [] OTHER -> m

\* len(message_body)
TextLen(m) ==
    CASE m = "" -> 0
      [] m \in {"1", "2", "9"} -> 1
      [] m = "NO" -> 2
      [] m = "hello" -> 5
      [] m = "YES" -> 3
      [] m = "male" -> 4
      [] m = "DECLINE" -> 7
      [] m = "GET STARTED" -> 11
      [] OTHER -> 17

\* str.isdigit() / int(): the texts that parse as an integer
IsDigit(m) == m \in {"0", "1", "2", "9"}
IntOf(m) == CASE m = "0" -> 0 [] m = "1" -> 1 [] m = "2" -> 2 [] m = "-1" -> -1 [] OTHER -> 9
\* the texts int() does not raise ValueError for: a sign is accepted
IsInt(m) == IsDigit(m) \/ m = "-1"

\* keyword in text_lower: the keywords of the handler's lists that occur in
\* each lower-cased inbound text
KeywordsIn(t) ==
    CASE t = "severe chest pain" -> {"chest pain", "severe", "pain"}
      [] t = "connect me to a doctor" -> {"connect me"}
      [] OTHER -> {}

RED_FLAG_KEYWORDS == {"chest pain"}

clinical_triggers ==
    {"diagnose", "diagnosis", "what do i have", "is it", "do i have",
     "prescription", "prescribe", "medication for", "treatment for",
     "how long", "when should i", "is this serious", "should i worry",
     "broken", "fracture", "injury", "accident", "bleeding", "pain",
     "severe", "urgent", "emergency"}

doctor_request_keywords ==
    {"connect me", "talk to doctor", "see a doctor", "speak to doctor",
     "need a doctor", "want a doctor", "talk to clinician", "see clinician",
     "connect to doctor", "get a doctor", "consult doctor", "doctor please",
     "real doctor", "human doctor", "actual doctor"}

_check_red_flags(text) == KeywordsIn(Lower(text)) \cap RED_FLAG_KEYWORDS # {}
_requires_clinical_assessment(text) == KeywordsIn(Lower(text)) \cap clinical_triggers # {}
_user_requesting_doctor(text) == KeywordsIn(Lower(text)) \cap doctor_request_keywords # {}

\* ---------------------------------------------------------- content blocks
\* A JSON content block: null, the empty dict {} or a dict with its one list.
Null == [kind |-> "null", items |-> <<>>]
EmptyDict == [kind |-> "empty", items |-> <<>>]
Block(items) == [kind |-> "dict", items |-> items]
Truthy(b) == b.kind = "dict"                 \* bool(block): None and {} are falsy
Get(b) == IF b.kind = "dict" THEN b.items ELSE <<>>   \* block.get(key, [])
OrElse(b, d) == IF Truthy(b) THEN b ELSE d   \* b or d

Med(n, d, f) == [name |-> n, dosage |-> d, frequency |-> f]

\* What the text-generation service returns for an assessment.
GeneratedPayload ==
    [otc_suggestions |-> Block(<<Med("ibuprofen", "400mg", "three times daily")>>),
     preliminary_recommendations |-> Block(<<"rest and hydration">>),
     monitoring_advice |-> Block(<<"severe difficulty breathing">>),
     likely_condition |-> "tension headache"]

\* AIEngine.generate_assessment's fallback on a JSON parsing error
FallbackPayload ==
    [otc_suggestions |-> Block(<<>>),
     preliminary_recommendations |-> Block(<<"Rest and hydration">>),
     monitoring_advice |-> Block(<<"If symptoms worsen">>),
     likely_condition |-> "Assessment pending"]

\* CreditPackage rows ordered by price: the credits each one carries
Packages == <<1, 2>>

\* --------------------------------------------------------------- variables
VARIABLES
    conversations,      \* ConversationSession table
    profile,            \* User.terms_accepted and PatientProfile, per patient
    triage_questions,   \* TriageQuestion table
    assessments,        \* AIAssessment table
    escalation_alerts,  \* EscalationAlert table
    payments,           \* PaymentHistory table
    availability,       \* ClinicianAvailability, per clinician
    assignments,        \* PatientAssignment table
    mod_sessions,       \* ModificationSession table
    dispatch_count,     \* per assessment: assessment messages dispatched to the patient
    now,                \* timezone.now(), in hours
    events,             \* what the last handler invocation did, in order
    invocations         \* handler invocations that run at the same time

vars == <<conversations, profile, triage_questions, assessments, escalation_alerts,
          payments, availability, assignments, mod_sessions, dispatch_count, now, events,
          invocations>>

\* ------------------------------------------------------------------ events
\* kind "in": the inbound message of the invocation (always events[1]);
\* "out": a message handed to the channel; "alert": an EscalationAlert row
\* created; "dispatch": the formatted assessment a sent to the patient with
\* the content of ModificationSession s (0: the original content)
Event(kind, to, what, a, s) == [kind |-> kind, to |-> to, what |-> what, a |-> a, s |-> s]
Out(to, what) == Event("out", to, what, 0, 0)
AlertCreated(sev) == Event("alert", "", sev, 0, 0)

\* ------------------------------------------------------------ table lookup
Indices(table) == 1..Len(table)
Max(S) == CHOOSE x \in S : \A y \in S : y <= x
Min(S) == CHOOSE x \in S : \A y \in S : x <= y

ActiveStatuses ==
    {"INITIAL", "AWAITING_ACCEPTANCE", "MODE_SELECTION", "AI_ONLY_ACTIVE",
     "ESCALATION_CONSENT", "AWAITING_PATIENT_PROFILE", "AI_TRIAGE_IN_PROGRESS",
     "PENDING_PAYMENT", "PENDING_CLINICIAN_REVIEW", "DIRECT_MESSAGING"}

\* ConversationSession.is_active
is_active(conv) == conv.status \notin {"CLOSED", "ESCALATED", "COMPLETED"}

NewConversation(p) ==
    [status |-> "INITIAL", patient |-> p, mode |-> "UNDECIDED",
     assigned_clinician |-> NoClinician, chief_complaint |-> "",
     is_escalated |-> FALSE, escalation_reason |-> "",
     ai_questions_asked |-> 0, is_paid |-> FALSE]


\* ------------------------------------------------- state as a record value
\* Record constructors list their fields in the order in which the names
\* first occur in this module, and the arguments of the actions of Next are
\* named definitions: TLC then shares only normalised values between workers.
\* Handlers are functions from the persisted state to the persisted state, so
\* that a handler can call another (S is the state the caller has reached).
St ==
    [conversations |-> conversations, profile |-> profile,
     triage_questions |-> triage_questions, assessments |-> assessments,
     escalation_alerts |-> escalation_alerts, payments |-> payments,
     availability |-> availability, assignments |-> assignments,
     mod_sessions |-> mod_sessions, dispatch_count |-> dispatch_count,
     now |-> now, events |-> events, fault |-> "none"]

\* the rows in the database are those of S
Persist(S) ==
    /\ conversations' = S.conversations
    /\ profile' = S.profile
    /\ triage_questions' = S.triage_questions
    /\ assessments' = S.assessments
    /\ escalation_alerts' = S.escalation_alerts
    /\ payments' = S.payments
    /\ availability' = S.availability
    /\ assignments' = S.assignments
    /\ mod_sessions' = S.mod_sessions
    /\ dispatch_count' = S.dispatch_count
    /\ now' = S.now
    /\ events' = S.events

\* no invocation runs at the same time as another: each is one step
NoInvocations == <<>>

Commit(S) == Persist(S) /\ invocations' = invocations

Emit(S, e) == [S EXCEPT !.events = Append(@, e)]
\* self.twilio.send_message(to, text): TwilioClient swallows its own errors
Send(S, to, what) == Emit(S, Out(to, what))
\* a handler invocation starts: its inbound event opens the trace
Begin(S, e) == [S EXCEPT !.events = <<e>>]

\* ------------------------------------------------------------------ faults
\* What goes wrong during an invocation (S.fault): nothing; the channel refuses
\* the message for the patient, which TwilioClient.send_message logs before it
\* returns None; one of the database writes of _finalize_send_to_patient
\* raises. Every write is committed as it is made: no handler opens a
\* transaction.
Faults == {"none", "channel", "assessment.save", "conversation.save", "Message.create"}

\* An exception leaves the handler: the event "raise" closes the trace.
Raise(S, what) == Emit(S, Event("raise", "", what, 0, 0))
Raised(S) == S.events[Len(S.events)].kind = "raise"
\* the exception is caught
Caught(S) == [S EXCEPT !.events = SubSeq(@, 1, Len(@) - 1)]
\* logger.error / logger.exception in an except block: the failure is logged
Logged(S, what) == Emit(S, Event("log", "", what, 0, 0))
\* `except Exception as e: print(..., exc_info=True)`: print() has no keyword
\* exc_info, so the except block raises TypeError at its first statement and
\* the statements after it (the apology to the clinician, return False) do
\* not run
PrintExcInfo(S) == Raise(Caught(S), "TypeError")
\* AuditLog.objects.create(user=user, action_type=action_type, ...); a is the
\* assessment of resource_id (0: the resource is not an assessment)
AuditCreated(user, action_type, a) == Event("audit", user, action_type, a, 0)
\* Message.objects.create(message_type=...) for the assessment a
MessageCreated(message_type, a, s) == Event("message", "", message_type, a, s)

\* ---------------------------------------------------- notification helpers
\* ClinicianWhatsAppHandler.notify_escalation
notify_escalation(S, clinician) == Send(S, clinician, "EMERGENCY ESCALATION")

\* ClinicianWhatsAppHandler.notify_patient_message
notify_patient_message(S, clinician) == Send(S, clinician, "NEW MESSAGE FROM PATIENT")

\* ClinicianWhatsAppHandler.notify_new_patient
notify_new_patient(S, clinician) == Send(S, clinician, "NEW PATIENT ASSIGNMENT")

\* ------------------------------------------------ consultation finalisation
\* workflow_service._assign_clinician with the availability row it picked.
\* order_by('current_patient_count')[:1] takes a row with the least stored
\* count; the database decides among equal counts, so every such row is a
\* possible pick.
AssignableClinicians(S) ==
    LET avail == {c \in DOMAIN S.availability :
                     S.availability[c].status \in {"AVAILABLE", "ON_CALL"}}
    IN {c \in avail : \A d \in avail :
            S.availability[c].current_patient_count <= S.availability[d].current_patient_count}

_assign_clinician(S, cid, pick) ==
    IF AssignableClinicians(S) = {} THEN S
    ELSE LET S1 == [S EXCEPT !.conversations[cid].assigned_clinician = pick,
                             !.assignments = Append(@,
                                 [status |-> "ACTIVE",
                                  patient |-> S.conversations[cid].patient,
                                  clinician |-> pick, conversation |-> cid])]
         IN notify_new_patient(S1, pick)

\* finalize_consultation_flow without the test of the balance
finalize_consultation_flow_unchecked(S, p, cid, aid, pick) ==
    LET S1 == [S EXCEPT !.profile[p].consultation_credits = @ - 1,
                        !.assessments[aid].status = "PENDING_REVIEW",
                        !.conversations[cid].status = "PENDING_CLINICIAN_REVIEW",
                        !.conversations[cid].is_paid = TRUE]
        S2 == _assign_clinician(S1, cid, pick)
    IN Send(S2, p, "PAYMENT CONFIRMED")

\* workflow_service.finalize_consultation_flow
finalize_consultation_flow(S, p, cid, aid, pick) ==
    IF S.profile[p].consultation_credits > 0
    THEN LET S1 == [S EXCEPT !.profile[p].consultation_credits = @ - 1,
                             !.assessments[aid].status = "PENDING_REVIEW",
                             !.conversations[cid].status = "PENDING_CLINICIAN_REVIEW",
                             !.conversations[cid].is_paid = TRUE]
             S2 == _assign_clinician(S1, cid, pick)
         IN Send(S2, p, "PAYMENT CONFIRMED")
    ELSE S

\* ------------------------------------------------------- patient handlers
\* MessageHandler._send_welcome_screen
_send_welcome_screen(S, p, cid) ==
    [Send(S, p, "WELCOME_MESSAGE") EXCEPT !.conversations[cid].status = "AWAITING_ACCEPTANCE"]

\* MessageHandler._handle_acceptance
_handle_acceptance(S, p, cid, m) ==
    IF Upper(m) = "GET STARTED"
    THEN Send([S EXCEPT !.profile[p].terms_accepted = TRUE,
                        !.conversations[cid].status = "MODE_SELECTION"],
              p, "MODE_SELECTION_MESSAGE")
    ELSE IF Upper(m) = "DECLINE"
    THEN Send([S EXCEPT !.conversations[cid].status = "CLOSED"], p, "declined")
    ELSE S

\* MessageHandler._handle_mode_selection
_handle_mode_selection(S, p, cid, m) ==
    IF m = "1"
    THEN Send([S EXCEPT !.conversations[cid].mode = "AI_ONLY",
                        !.conversations[cid].status = "AI_ONLY_ACTIVE"],
              p, "AI_ONLY_DISCLAIMER")
    ELSE IF m = "2"
    THEN Send([S EXCEPT !.conversations[cid].mode = "CLINICIAN",
                        !.conversations[cid].status = "AWAITING_PATIENT_PROFILE"],
              p, "CLINICIAN_MODE_START")
    ELSE Send(S, p, "reply 1 or 2")

\* MessageHandler._trigger_escalation_request
_trigger_escalation_request(S, p, cid, trigger_text) ==
    Send([S EXCEPT !.conversations[cid].status = "ESCALATION_CONSENT",
                   !.conversations[cid].escalation_reason = trigger_text],
         p, "CLINICIAN CONSULTATION NEEDED")

\* MessageHandler._handle_ai_only_chat; g is what the text service does
_handle_ai_only_chat(S, p, cid, m, g) ==
    IF _user_requesting_doctor(m) THEN _trigger_escalation_request(S, p, cid, m)
    ELSE IF _check_red_flags(m) THEN _trigger_escalation_request(S, p, cid, m)
    ELSE IF _requires_clinical_assessment(m) THEN _trigger_escalation_request(S, p, cid, m)
    ELSE IF g = "raise" THEN Send(S, p, "could you rephrase")
    ELSE Send(S, p, "ai response")

\* MessageHandler._handle_escalation_consent
_handle_escalation_consent(S, p, cid, m) ==
    IF Upper(m) = "YES"
    THEN Send([S EXCEPT !.conversations[cid].mode = "CLINICIAN",
                        !.conversations[cid].status = "AWAITING_PATIENT_PROFILE",
                        !.conversations[cid].is_escalated = TRUE],
              p, "What's your age?")
    ELSE IF Upper(m) = "NO"
    THEN Send([S EXCEPT !.conversations[cid].status = "AI_ONLY_ACTIVE"], p, "continue with AI")
    ELSE Send(S, p, "reply YES or NO")

\* MessageHandler._handle_escalation
_handle_escalation(S, p, cid, trigger_text) ==
    LET S1 == [S EXCEPT !.conversations[cid].is_escalated = TRUE,
                        !.conversations[cid].status = "ESCALATED",
                        !.escalation_alerts = Append(@,
                            [conversation |-> cid, alert_status |-> "PENDING",
                             alert_severity |-> "CRITICAL"])]
        S2 == Emit(S1, AlertCreated("CRITICAL"))
    IN IF S2.conversations[cid].assigned_clinician # NoClinician
       THEN notify_escalation(S2, S2.conversations[cid].assigned_clinician)
       ELSE S2

\* AIEngine.generate_first_question / generate_next_question: the text the
\* engine returns; a service error is caught inside the engine, which then
\* returns its own fixed question
EngineFirstFallback == "Can you tell me more about when this started and how severe it is?"
EngineNextFallback == "Is there anything else about your symptoms you'd like to share?"
HandlerEmptyFallback == "Can you tell me more about your symptoms? Any other details that might help?"

generate_first_question(g) ==
    CASE g = "raise" -> EngineFirstFallback
      [] g = "empty" -> ""
      [] OTHER -> "ai question"

generate_next_question(g) ==
    CASE g = "raise" -> EngineNextFallback
      [] g = "empty" -> ""
      [] OTHER -> "ai question"

NewQuestion(cid, text, order) ==
    [conversation |-> cid, question_text |-> text, question_order |-> order,
     patient_response |-> "", response_processed |-> FALSE]

\* MessageHandler._start_ai_triage
_start_ai_triage(S, p, cid, g) ==
    LET question == generate_first_question(g)
        S1 == [S EXCEPT !.triage_questions = Append(@, NewQuestion(cid, question, 1))]
        S2 == Send(S1, p, question)
    IN [S2 EXCEPT !.conversations[cid].ai_questions_asked = 1]


\* MessageHandler._generate_assessment; g is what the text service does:
\* "raise" is a service error that AIEngine.generate_assessment re-raises,
\* "bad_json" and "empty" are replies json.loads rejects
_generate_assessment(S, p, cid, g, pick) ==
    IF g = "raise" \/ \E a \in Indices(S.assessments) : S.assessments[a].conversation = cid
    THEN Send(S, p, "error generating results")
    ELSE
    LET payload == IF g \in {"bad_json", "empty"} THEN FallbackPayload ELSE GeneratedPayload
        aid == Len(S.assessments) + 1
        S1 == [S EXCEPT !.assessments = Append(@,
                  [otc_suggestions |-> payload.otc_suggestions,
                   preliminary_recommendations |-> payload.preliminary_recommendations,
                   monitoring_advice |-> payload.monitoring_advice,
                   likely_condition |-> payload.likely_condition,
                   status |-> "PENDING_PAYMENT", patient |-> p, conversation |-> cid,
                   sent_to_patient_at |-> -1]),
                 !.dispatch_count = Append(@, 0)]
    IN IF S1.profile[p].consultation_credits > 0
       THEN finalize_consultation_flow(Send(S1, p, "YOUR HEALTH SUMMARY"), p, cid, aid, pick)
       ELSE Send(Send([S1 EXCEPT !.conversations[cid].status = "PENDING_PAYMENT"],
                      p, "ASSESSMENT COMPLETE"),
                 p, "CONSULTATION CREDITS REQUIRED")

\* the first unanswered question of the conversation:
\* triage_questions.filter(response_processed=False).order_by('question_order').first()
Unprocessed(S, cid) ==
    {i \in Indices(S.triage_questions) :
        /\ S.triage_questions[i].conversation = cid
        /\ ~S.triage_questions[i].response_processed}

FirstUnprocessed(S, cid) ==
    CHOOSE i \in Unprocessed(S, cid) :
        \A j \in Unprocessed(S, cid) :
            \/ S.triage_questions[i].question_order < S.triage_questions[j].question_order
            \/ /\ S.triage_questions[i].question_order = S.triage_questions[j].question_order
               /\ i <= j

\* _handle_triage_response without the test for an empty question: what the
\* engine returns is stored and sent as it is
_handle_triage_response_without_fallback(S, p, cid, m, g, pick) ==
    IF m = ""
    THEN Send(S, p, "could you repeat your answer")
    ELSE
    LET S1 == IF Unprocessed(S, cid) # {}
              THEN [S EXCEPT !.triage_questions[FirstUnprocessed(S, cid)].patient_response = m,
                             !.triage_questions[FirstUnprocessed(S, cid)].response_processed = TRUE]
              ELSE S
        asked == S.conversations[cid].ai_questions_asked + 1
        S2 == [S1 EXCEPT !.conversations[cid].ai_questions_asked = asked]
    IN IF asked >= MAX_TRIAGE_QUESTIONS
       THEN _generate_assessment(S2, p, cid, g, pick)
       ELSE LET next_question == generate_next_question(g)
                S3 == [S2 EXCEPT !.triage_questions =
                           Append(@, NewQuestion(cid, next_question, asked + 1))]
            IN Send(S3, p, next_question)

\* MessageHandler._handle_triage_response
_handle_triage_response(S, p, cid, m, g, pick) ==
    IF m = ""
    THEN Send(S, p, "could you repeat your answer")
    ELSE
    LET S1 == IF Unprocessed(S, cid) # {}
              THEN [S EXCEPT !.triage_questions[FirstUnprocessed(S, cid)].patient_response = m,
                             !.triage_questions[FirstUnprocessed(S, cid)].response_processed = TRUE]
              ELSE S
        asked == S.conversations[cid].ai_questions_asked + 1
        S2 == [S1 EXCEPT !.conversations[cid].ai_questions_asked = asked]
    IN IF asked >= MAX_TRIAGE_QUESTIONS
       THEN _generate_assessment(S2, p, cid, g, pick)
       ELSE LET next_question == IF generate_next_question(g) = ""
                                 THEN HandlerEmptyFallback
                                 ELSE generate_next_question(g)
                S3 == [S2 EXCEPT !.triage_questions =
                           Append(@, NewQuestion(cid, next_question, asked + 1))]
            IN Send(S3, p, next_question)

\* MessageHandler._handle_profile_collection
_handle_profile_collection(S, p, cid, m, g) ==
    LET prof == S.profile[p]
    IN IF prof.age = 0 /\ ~IsDigit(m)
       THEN Send(S, p, "enter a valid age")
       ELSE IF prof.age = 0 /\ 0 < IntOf(m) /\ IntOf(m) < 150
       THEN Send([S EXCEPT !.profile[p].age = IntOf(m)], p, "PROFILE_QUESTIONS gender")
       ELSE IF prof.gender = ""
       THEN IF Upper(m) \in {"MALE", "FEMALE", "OTHER"}
            THEN Send([S EXCEPT !.profile[p].gender = Upper(m)],
                      p, "PROFILE_QUESTIONS chief_complaint")
            ELSE Send(S, p, "reply Male, Female or Other")
       ELSE IF m # "" /\ TextLen(m) > 3
       THEN IF Lower(m) \in {"hi", "hello", "hey"}
            THEN Send(S, p, "PROFILE_QUESTIONS chief_complaint")
            ELSE LET S1 == [S EXCEPT !.conversations[cid].chief_complaint = m,
                                     !.conversations[cid].status = "AI_TRIAGE_IN_PROGRESS"]
                 IN IF _check_red_flags(m)
                    THEN _handle_escalation(S1, p, cid, m)
                    ELSE _start_ai_triage(S1, p, cid, g)
       ELSE Send(S, p, "describe your symptoms in more detail")

\* MessageHandler._handle_pending_review
_handle_pending_review(S, p, cid, m) ==
    IF S.conversations[cid].assigned_clinician # NoClinician
    THEN notify_patient_message(S, S.conversations[cid].assigned_clinician)
    ELSE S

\* MessageHandler._handle_direct_message
_handle_direct_message(S, p, cid, m) ==
    IF S.conversations[cid].assigned_clinician # NoClinician
    THEN notify_patient_message(S, S.conversations[cid].assigned_clinician)
    ELSE S

\* MessageHandler._route_message
_route_message(S, p, cid, m, g, pick) ==
    LET status == S.conversations[cid].status
    IN CASE status = "INITIAL" -> _send_welcome_screen(S, p, cid)
         [] status = "AWAITING_ACCEPTANCE" -> _handle_acceptance(S, p, cid, m)
         [] status = "MODE_SELECTION" -> _handle_mode_selection(S, p, cid, m)
         [] status = "AI_ONLY_ACTIVE" -> _handle_ai_only_chat(S, p, cid, m, g)
         [] status = "ESCALATION_CONSENT" -> _handle_escalation_consent(S, p, cid, m)
         [] status = "AWAITING_PATIENT_PROFILE" -> _handle_profile_collection(S, p, cid, m, g)
         [] status = "AI_TRIAGE_IN_PROGRESS" -> _handle_triage_response(S, p, cid, m, g, pick)
         [] status = "PENDING_CLINICIAN_REVIEW" -> _handle_pending_review(S, p, cid, m)
         [] status = "DIRECT_MESSAGING" -> _handle_direct_message(S, p, cid, m)
         [] OTHER -> S

\* MessageHandler._get_or_create_conversation: the rows the filter matches,
\* newest first (Meta.ordering = ['-created_at'])
ActiveConversations(S, p) ==
    {i \in Indices(S.conversations) :
        /\ S.conversations[i].patient = p
        /\ S.conversations[i].status \in ActiveStatuses}

_get_or_create_conversation(S, p) ==
    IF ActiveConversations(S, p) # {}
    THEN [S |-> S, cid |-> Max(ActiveConversations(S, p))]
    ELSE [S |-> [S EXCEPT !.conversations = Append(@, NewConversation(p))],
          cid |-> Len(S.conversations) + 1]

\* MessageHandler._handle_package_selection: TRUE when the text picks a package
PackageSelected(m) == IsDigit(Lower(m)) /\ 0 <= IntOf(m) - 1 /\ IntOf(m) - 1 < Len(Packages)

\* MessageHandler._send_payment_link
_send_payment_link(S, p, pkg) ==
    Send([S EXCEPT !.payments = Append(@, [status |-> "PENDING", user |-> p, package |-> pkg])],
         p, "payment link")

\* MessageHandler.process_incoming_message for the text m of patient p; when
\* Message.objects.create raises, the except block logs and returns False
process_incoming_message(S, p, m, g, pick) ==
    LET r == _get_or_create_conversation(S, p)
    IN IF r.S.conversations[r.cid].status = "PENDING_PAYMENT" /\ PackageSelected(m)
       THEN _send_payment_link(r.S, p, IntOf(m))
       ELSE IF S.fault = "Message.create"
       THEN Logged(r.S, "Error processing message")
       ELSE _route_message(Emit(r.S, AuditCreated(p, "MESSAGE_RECEIVED", 0)),
                           p, r.cid, m, g, pick)

\* -------------------------------------------------------------- payments
\* subscriptions.views.activate_subscription: the state it leaves and the
\* message it returns ("" when it returns False)
PendingPaymentAssessments(S, p) ==
    {a \in Indices(S.assessments) :
        S.assessments[a].patient = p /\ S.assessments[a].status = "PENDING_PAYMENT"}

\* activate_subscription without the test for a payment already processed:
\* a confirmation delivered again is processed again
activate_subscription_again(S, tx_ref, pick) ==
    IF tx_ref \notin Indices(S.payments)
    THEN [S |-> S, msg |-> ""]
    ELSE
    LET p == S.payments[tx_ref].user
        S1 == [S EXCEPT !.payments[tx_ref].status = "SUCCESS",
                        !.profile[p].consultation_credits = @ + Packages[S.payments[tx_ref].package]]
    IN IF PendingPaymentAssessments(S1, p) # {}
       THEN LET aid == Min(PendingPaymentAssessments(S1, p))
            IN [S |-> finalize_consultation_flow(S1, p, S1.assessments[aid].conversation, aid, pick),
                msg |-> "Resumed Flow"]
       ELSE [S |-> S1, msg |-> "Credits Added"]

\* activate_subscription without the resumption of the parked assessment:
\* the credits are added and nothing else happens
activate_subscription_credits_only(S, tx_ref, pick) ==
    IF tx_ref \notin Indices(S.payments)
    THEN [S |-> S, msg |-> ""]
    ELSE IF S.payments[tx_ref].status = "SUCCESS"
    THEN [S |-> S, msg |-> "Already processed"]
    ELSE [S |-> [S EXCEPT !.payments[tx_ref].status = "SUCCESS",
                          !.profile[S.payments[tx_ref].user].consultation_credits =
                              @ + Packages[S.payments[tx_ref].package]],
          msg |-> "Credits Added"]

activate_subscription(S, tx_ref, pick) ==
    IF tx_ref \notin Indices(S.payments)
    THEN [S |-> S, msg |-> ""]
    ELSE IF S.payments[tx_ref].status = "SUCCESS"
    THEN [S |-> S, msg |-> "Already processed"]
    ELSE
    LET p == S.payments[tx_ref].user
        S1 == [S EXCEPT !.payments[tx_ref].status = "SUCCESS",
                        !.profile[p].consultation_credits = @ + Packages[S.payments[tx_ref].package]]
    IN IF PendingPaymentAssessments(S1, p) # {}
       THEN LET aid == Min(PendingPaymentAssessments(S1, p))   \* .last() of newest-first
            IN [S |-> finalize_consultation_flow(S1, p, S1.assessments[aid].conversation, aid, pick),
                msg |-> "Resumed Flow"]
       ELSE [S |-> S1, msg |-> "Credits Added"]

\* FlutterwaveWebhookView.post / PaymentSuccessView.get for a successful charge
payment_confirmed(S, tx_ref, pick) ==
    LET r == activate_subscription(S, tx_ref, pick)
    IN IF r.msg = "Credits Added"
       THEN Send(r.S, r.S.payments[tx_ref].user, "PAYMENT SUCCESSFUL")
       ELSE r.S


\* ---------------------------------------------------------------- validator
\* Texts the validator scans, with the facts its substring tests compute.
\* digits of a dosage string, in order ('400mg' -> 4,0,0)
DigitsOf(dosage) ==
    CASE dosage = "400mg" -> <<4, 0, 0>>
      [] dosage = "2000mg" -> <<2, 0, 0, 0>>
      [] OTHER -> <<>>

\* the number float() reads from a digit string
NumberOf(ds) == IF ds = <<>> THEN 0
                ELSE LET F[i \in 0..Len(ds)] == IF i = 0 THEN 0 ELSE 10 * F[i - 1] + ds[i]
                     IN F[Len(ds)]

\* x in y for digit strings
Occurs(x, y) ==
    \E k \in 0..(Len(y) - Len(x)) : \A i \in 1..Len(x) : y[k + i] = x[i]

\* safe_dosages with 'mg' and 'g' stripped, per medication name
safe_dosages ==
    [ibuprofen |-> <<<<2, 0, 0>>, <<4, 0, 0>>, <<6, 0, 0>>, <<8, 0, 0>>>>,
     aspirin |-> <<<<1, 0, 0>>, <<3, 0, 0>>, <<5, 0, 0>>, <<1, 0, 0, 0>>, <<1>>>>]

Issue(type, severity) == [type |-> type, severity |-> severity]

\* AssessmentModificationValidator._check_dosage_safety
_check_dosage_safety(med_name, dosage) ==
    IF med_name \in DOMAIN safe_dosages /\ DigitsOf(dosage) # <<>>
    THEN LET safe_doses == safe_dosages[med_name]
             is_safe == \E i \in 1..Len(safe_doses) : Occurs(safe_doses[i], DigitsOf(dosage))
             max_safe == Max({NumberOf(safe_doses[i]) : i \in 1..Len(safe_doses)})
         IN IF ~is_safe /\ 2 * NumberOf(DigitsOf(dosage)) > 3 * max_safe
            THEN <<Issue("medication_safety", "HIGH")>>
            ELSE <<>>
    ELSE <<>>

dangerous_patterns == {"every hour", "hourly", "10 times", "12 times", "every 2 hours"}

\* pattern in freq_lower, for the frequency texts of the model
PatternsIn(frequency) ==
    CASE frequency = "every hour" -> {"every hour"}
      [] OTHER -> {}

\* AssessmentModificationValidator._check_frequency_safety
_check_frequency_safety(med_name, frequency) ==
    IF med_name \in {"aspirin", "ibuprofen", "paracetamol", "acetaminophen"}
       /\ PatternsIn(frequency) \cap dangerous_patterns # {}
    THEN <<Issue("medication_safety", "CRITICAL")>>
    ELSE <<>>

dangerous_interactions ==
    [ibuprofen |-> {"aspirin", "naproxen"}, aspirin |-> {"ibuprofen", "warfarin"},
     paracetamol |-> {"alcohol"}, acetaminophen |-> {"alcohol"}]

\* sequence of one issue per element of the set S (order is immaterial to
\* the severity)
RECURSIVE IssuesFor(_, _)
IssuesFor(S, issue) ==
    IF S = {} THEN <<>>
    ELSE LET x == CHOOSE y \in S : TRUE IN <<issue>> \o IssuesFor(S \ {x}, issue)

\* AssessmentModificationValidator._check_drug_interactions
_check_drug_interactions(med_name, all_medications) ==
    IF med_name \in DOMAIN dangerous_interactions
    THEN LET other_meds == {all_medications[i].name : i \in
                               {j \in 1..Len(all_medications) : all_medications[j].name # med_name}}
         IN IssuesFor(dangerous_interactions[med_name] \cap other_meds,
                      Issue("medication_safety", "HIGH"))
    ELSE <<>>

\* condition_med_map entries whose key occurs in the assessment's likely
\* condition (key_observations.likely_condition)
AppropriateMeds(condition) ==
    CASE condition = "tension headache" -> {"aspirin", "ibuprofen", "paracetamol", "acetaminophen"}
      [] OTHER -> {}

\* AssessmentModificationValidator._check_med_appropriateness
_check_med_appropriateness(med_name, condition) ==
    IF AppropriateMeds(condition) # {} /\ med_name \notin AppropriateMeds(condition)
    THEN <<Issue("consistency", "MEDIUM")>>
    ELSE <<>>

\* AssessmentModificationValidator._get_safe_otc_drugs
_get_safe_otc_drugs ==
    {"aspirin", "ibuprofen", "paracetamol", "acetaminophen", "cetirizine", "loratadine",
     "antihistamine", "decongestant", "cough syrup", "dextromethorphan",
     "diphenhydramine", "antacid", "omeprazole", "ranitidine"}

RECURSIVE Concat(_)
Concat(seqs) == IF seqs = <<>> THEN <<>> ELSE Head(seqs) \o Concat(Tail(seqs))

\* AssessmentModificationValidator._validate_medications
_validate_medications(assessment, modified_meds) ==
    IF ~Truthy(modified_meds) \/ Get(modified_meds) = <<>> THEN <<>>
    ELSE
    LET medications == Get(modified_meds)
        original_meds == Get(assessment.otc_suggestions)
        original_med_names == {original_meds[i].name : i \in 1..Len(original_meds)}
        condition == assessment.likely_condition
        ForMed(med) ==
            (IF med.dosage # "" THEN _check_dosage_safety(med.name, med.dosage) ELSE <<>>)
            \o (IF med.frequency # "" THEN _check_frequency_safety(med.name, med.frequency) ELSE <<>>)
            \o _check_drug_interactions(med.name, medications)
            \o (IF condition # "" THEN _check_med_appropriateness(med.name, condition) ELSE <<>>)
            \o (IF med.name \notin original_med_names /\ med.name \notin _get_safe_otc_drugs
                THEN <<Issue("medication_safety", "MEDIUM")>> ELSE <<>>)
    IN Concat([i \in 1..Len(medications) |-> ForMed(medications[i])])

\* facts about the recommendation and warning texts of the model:
\* vague_words / conflicting_pairs / critical_keywords found in the text,
\* and len(text) < 10
IsVague(text) == FALSE
ConflictsWithin(recommendations) == 0
IsBrief(text) == FALSE
HasCriticalKeyword(text) ==
    text \in {"severe difficulty breathing"}

\* AssessmentModificationValidator._validate_recommendations
_validate_recommendations(assessment, modified_recs) ==
    IF ~Truthy(modified_recs) THEN <<>>
    ELSE LET recommendations == Get(modified_recs)
         IN (IF recommendations = <<>> THEN <<Issue("completeness", "MEDIUM")>> ELSE <<>>)
            \o Concat([i \in 1..Len(recommendations) |->
                         IF IsVague(recommendations[i]) THEN <<Issue("quality", "LOW")>> ELSE <<>>])
            \o [i \in 1..ConflictsWithin(recommendations) |-> Issue("consistency", "HIGH")]

\* AssessmentModificationValidator._validate_monitoring
_validate_monitoring(assessment, modified_monitoring) ==
    IF ~Truthy(modified_monitoring) THEN <<>>
    ELSE LET when_to_seek == Get(modified_monitoring)
         IN (IF when_to_seek = <<>> THEN <<Issue("completeness", "HIGH")>> ELSE <<>>)
            \o Concat([i \in 1..Len(when_to_seek) |->
                  (IF IsBrief(when_to_seek[i]) THEN <<Issue("quality", "MEDIUM")>> ELSE <<>>)
                  \o (IF ~HasCriticalKeyword(when_to_seek[i]) /\ i = 1
                      THEN <<Issue("completeness", "MEDIUM")>> ELSE <<>>)])


\* a clinician's message body: its first word (lower-cased), the assessment,
\* session and conversation ids it names (0: none) and its remaining text
Body(cmd, a, s, conv, text) == [text |-> text, a |-> a, s |-> s, conv |-> conv, cmd |-> cmd]
NoText == Body("", 0, 0, 0, "")

\* unprofessional_words found in the note / len(notes) > 500, for the
\* bodies of the model
NotesInformal(notes) == FALSE
NotesLong(notes) == FALSE

\* AssessmentModificationValidator._validate_notes
_validate_notes(notes) ==
    IF notes = NoText THEN <<>>
    ELSE (IF NotesInformal(notes) THEN <<Issue("quality", "LOW")>> ELSE <<>>)
         \o (IF NotesLong(notes) THEN <<Issue("quality", "LOW")>> ELSE <<>>)

\* AssessmentModificationValidator._validate_overall_consistency
_validate_overall_consistency(assessment, modification_session) ==
    LET meds == Get(modification_session.modified_otc_suggestions)
        recs == Get(modification_session.modified_recommendations)
        warnings == Get(modification_session.modified_monitoring_advice)
        sections_filled == <<meds # <<>>, recs # <<>>, warnings # <<>>>>
        original_meds == Get(assessment.otc_suggestions)
        original_recs == Get(assessment.preliminary_recommendations)
        In(x, seq) == \E i \in 1..Len(seq) : seq[i] = x
    IN (IF Cardinality({i \in 1..3 : sections_filled[i]}) < 2
        THEN <<Issue("completeness", "MEDIUM")>> ELSE <<>>)
       \o (IF /\ Len(meds) = Len(original_meds)
              /\ \A i \in 1..Len(meds) : In(meds[i], original_meds)
              /\ Len(recs) = Len(original_recs)
              /\ \A i \in 1..Len(recs) : In(recs[i], original_recs)
           THEN <<Issue("quality", "LOW")>> ELSE <<>>)

\* _determine_severity with HIGH tested before CRITICAL
_determine_severity_high_first(issues) ==
    LET severities == {issues[i].severity : i \in 1..Len(issues)}
    IN IF issues = <<>> THEN "OK"
       ELSE IF "HIGH" \in severities THEN "HIGH"
       ELSE IF "CRITICAL" \in severities THEN "CRITICAL"
       ELSE IF "MEDIUM" \in severities THEN "MEDIUM"
       ELSE IF "LOW" \in severities THEN "LOW"
       ELSE "OK"

\* AssessmentModificationValidator._determine_severity
_determine_severity(issues) ==
    LET severities == {issues[i].severity : i \in 1..Len(issues)}
    IN IF issues = <<>> THEN "OK"
       ELSE IF "CRITICAL" \in severities THEN "CRITICAL"
       ELSE IF "HIGH" \in severities THEN "HIGH"
       ELSE IF "MEDIUM" \in severities THEN "MEDIUM"
       ELSE IF "LOW" \in severities THEN "LOW"
       ELSE "OK"

\* _get_recommendation that lets a single MEDIUM issue pass
_get_recommendation_lenient(severity, issues) ==
    IF severity = "CRITICAL" THEN "DO_NOT_SEND"
    ELSE IF severity = "HIGH" THEN "REVIEW"
    ELSE IF severity = "MEDIUM" /\ Len(issues) > 1 THEN "REVIEW"
    ELSE "SEND"

\* AssessmentModificationValidator._get_recommendation (issues is not read)
_get_recommendation(severity, issues) ==
    IF severity = "CRITICAL" THEN "DO_NOT_SEND"
    ELSE IF severity = "HIGH" THEN "REVIEW"
    ELSE IF severity = "MEDIUM" THEN "REVIEW"
    ELSE "SEND"

\* a ModificationSession that has not been validated (validation_result null)
NoValidation == [severity |-> "", issues |-> <<>>, recommendation |-> ""]

\* AssessmentModificationValidator.validate_modification: the stored result
\* keeps the severity, the issues (type and severity) and the recommendation
validate_modification(assessment, modification_session) ==
    LET issues == _validate_medications(assessment, modification_session.modified_otc_suggestions)
                  \o _validate_recommendations(assessment, modification_session.modified_recommendations)
                  \o _validate_monitoring(assessment, modification_session.modified_monitoring_advice)
                  \o _validate_notes(modification_session.clinician_notes)
                  \o _validate_overall_consistency(assessment, modification_session)
        severity == _determine_severity(issues)
    IN [severity |-> severity, issues |-> issues,
        recommendation |-> _get_recommendation(severity, issues)]


\* ------------------------------------------------------ clinician handlers
\* response == word, for a body that is that word alone
IsExactly(b, word) == b = Body(word, 0, 0, 0, "")

\* response.startswith(prefix), over the first words of the model's bodies
StartsWith(b, prefix) ==
    CASE prefix = "confirm" -> b.cmd \in {"confirm", "confirm_send"}
      [] OTHER -> b.cmd = prefix

\* the lookup without the test of the assigned clinician
_get_assessment_by_id_of_anyone(S, c, a) ==
    {i \in Indices(S.assessments) : i = a}

\* AIAssessment.objects.get(id__startswith=a, conversation__assigned_clinician=c):
\* the matching rows
_get_assessment_by_id(S, c, a) ==
    {i \in Indices(S.assessments) :
        i = a /\ S.conversations[S.assessments[i].conversation].assigned_clinician = c}

\* the lookup without the test of the session's status
_get_modification_session_of_any_status(S, c, s) ==
    {i \in Indices(S.mod_sessions) : i = s /\ S.mod_sessions[i].clinician = c}

\* ClinicianWhatsAppHandler._get_modification_session: the matching rows
_get_modification_session(S, c, s) ==
    {i \in Indices(S.mod_sessions) :
        i = s /\ S.mod_sessions[i].clinician = c /\ S.mod_sessions[i].status = "COMPLETED"}

\* An AssessmentReview row is created: action is its action, a its
\* assessment and s the ModificationSession whose three blocks and notes it
\* copies (0: a review without modified blocks).
ReviewCreated(c, action, a, s) == Event("review", c, action, a, s)

\* ClinicianWhatsAppHandler._handle_approve
_handle_approve(S, c, b) ==
    IF b.a = 0 THEN Send(S, c, "USAGE approve")
    ELSE IF _get_assessment_by_id(S, c, b.a) = {} THEN Send(S, c, "Assessment not found")
    ELSE Send(Emit([Emit(S, ReviewCreated(c, "APPROVED", b.a, 0))
                       EXCEPT !.assessments[b.a].status = "APPROVED"],
                   AuditCreated(c, "ASSESSMENT_APPROVED", b.a)),
              c, "ASSESSMENT APPROVED")

\* ClinicianWhatsAppHandler._handle_reject
_handle_reject(S, c, b) ==
    IF b.a = 0 THEN Send(S, c, "USAGE reject")
    ELSE IF _get_assessment_by_id(S, c, b.a) = {} THEN Send(S, c, "Assessment not found")
    ELSE Send(Emit([Emit(S, ReviewCreated(c, "REJECTED", b.a, 0))
                       EXCEPT !.assessments[b.a].status = "REJECTED"],
                   AuditCreated(c, "ASSESSMENT_REVIEWED", b.a)),
              c, "ASSESSMENT REJECTED")

\* ClinicianWhatsAppHandler._finalize_send_to_patient; s = 0 is mod_session=None.
\* The dispatch event is the formatted assessment handed to the channel for
\* the patient (the prescription document that follows it is not modelled).
_finalize_send_to_patient(S, c, a, s) ==
    LET assessment == S.assessments[a]
        sent == IF S.fault = "channel" THEN S
                ELSE [Emit(S, Event("dispatch", assessment.patient, "assessment", a, s))
                         EXCEPT !.dispatch_count[a] = @ + 1]
        saved == [sent EXCEPT !.assessments[a].status = "SENT_TO_PATIENT",
                              !.assessments[a].sent_to_patient_at = S.now]
        moved == [saved EXCEPT
                     !.conversations[assessment.conversation].status = "DIRECT_MESSAGING"]
        recorded == Emit(moved, MessageCreated("CLINICIAN", a, s))
    IN CASE S.fault = "assessment.save" -> PrintExcInfo(Raise(sent, "DatabaseError"))
         [] S.fault = "conversation.save" -> PrintExcInfo(Raise(saved, "DatabaseError"))
         [] S.fault = "Message.create" -> PrintExcInfo(Raise(moved, "DatabaseError"))
         [] OTHER -> Send(recorded, c, "ASSESSMENT SENT")

\* ClinicianWhatsAppHandler._send_validation_report
_send_validation_report(S, c, validation_result) ==
    LET S1 == Send(S, c, "VALIDATION REPORT")
        S2 == IF validation_result.issues # <<>> THEN Send(S1, c, "validation issues") ELSE S1
        recommendation == validation_result.recommendation
    IN CASE recommendation = "DO_NOT_SEND" ->
              Send(Send(S2, c, "CRITICAL ISSUES DETECTED"), c, "OPTIONS modify pending send_anyway")
         [] recommendation = "REVIEW" ->
              Send(Send(S2, c, "ISSUES DETECTED"), c, "OPTIONS send_anyway modify pending")
         [] recommendation = "SEND" ->
              Send(Send(S2, c, "VALIDATION PASSED"), c, "CONFIRM SEND confirm_send")
         [] OTHER -> S2

\* the clinician's COMPLETED sessions of the assessment; .first() is the
\* newest (Meta.ordering = ['-created_at'])
CompletedSessions(S, c, a) ==
    {i \in Indices(S.mod_sessions) :
        /\ S.mod_sessions[i].assessment = a
        /\ S.mod_sessions[i].clinician = c
        /\ S.mod_sessions[i].status = "COMPLETED"}

\* _handle_send with the validation of a COMPLETED session left out: the
\* session's content goes to the patient on the send command
_handle_send_unvalidated(S, c, b) ==
    IF b.a = 0 THEN Send(S, c, "USAGE send")
    ELSE IF _get_assessment_by_id(S, c, b.a) = {} THEN Send(S, c, "Assessment not found")
    ELSE IF S.assessments[b.a].status \notin {"APPROVED", "MODIFIED"}
    THEN Send(S, c, "Assessment must be approved first")
    ELSE IF CompletedSessions(S, c, b.a) # {}
    THEN _finalize_send_to_patient(S, c, b.a, Max(CompletedSessions(S, c, b.a)))
    ELSE _finalize_send_to_patient(S, c, b.a, 0)

\* ClinicianWhatsAppHandler._handle_send
_handle_send(S, c, b) ==
    IF b.a = 0 THEN Send(S, c, "USAGE send")
    ELSE IF _get_assessment_by_id(S, c, b.a) = {} THEN Send(S, c, "Assessment not found")
    ELSE IF S.assessments[b.a].status \notin {"APPROVED", "MODIFIED"}
    THEN Send(S, c, "Assessment must be approved first")
    ELSE IF CompletedSessions(S, c, b.a) # {}
    THEN LET mod_session == Max(CompletedSessions(S, c, b.a))
             validation_result == validate_modification(S.assessments[b.a],
                                                        S.mod_sessions[mod_session])
             S1 == [S EXCEPT !.mod_sessions[mod_session].validation_result = validation_result]
         IN _send_validation_report(S1, c, validation_result)
    ELSE _finalize_send_to_patient(S, c, b.a, 0)

\* ClinicianWhatsAppHandler._handle_send_anyway
_handle_send_anyway(S, c, a, s) ==
    IF _get_assessment_by_id(S, c, a) = {} \/ _get_modification_session(S, c, s) = {}
    THEN Send(S, c, "Assessment or session not found")
    ELSE LET S1 == Emit([S EXCEPT !.mod_sessions[s].sent_with_warnings = TRUE],
                        AuditCreated(c, "ASSESSMENT_OVERRIDE", a))
             R == _finalize_send_to_patient(Send(S1, c, "SENDING DESPITE WARNINGS"), c, a, s)
         IN IF Raised(R)
            THEN Send(Logged(Caught(R), "Error in send_anyway"), c, "Error sending assessment")
            ELSE R

\* ClinicianWhatsAppHandler._handle_confirm_send
_handle_confirm_send(S, c, a, s) ==
    IF _get_assessment_by_id(S, c, a) = {} \/ _get_modification_session(S, c, s) = {}
    THEN Send(S, c, "Assessment or session not found")
    ELSE LET R == _finalize_send_to_patient(Emit(S, AuditCreated(c, "ASSESSMENT_SENT", a)),
                                            c, a, s)
         IN IF Raised(R)
            THEN Send(Logged(Caught(R), "Error in confirm_send"), c, "Error sending assessment")
            ELSE R

\* the conversation `message` and `close` resolve their id to: a conversation
\* id first, then an assessment id
ConversationFor(S, c, b) ==
    LET byId == {i \in Indices(S.conversations) :
                    i = b.conv /\ S.conversations[i].assigned_clinician = c}
    IN IF byId # {} THEN byId
       ELSE {S.assessments[a].conversation : a \in _get_assessment_by_id(S, c, b.a)}

\* ClinicianWhatsAppHandler._handle_message
_handle_message(S, c, b) ==
    IF b.a = 0 /\ b.conv = 0 THEN Send(S, c, "USAGE message")
    ELSE IF b.text = "" THEN Send(S, c, "Missing message text")
    ELSE IF ConversationFor(S, c, b) = {} THEN Send(S, c, "Context not found")
    ELSE LET conversation == CHOOSE i \in ConversationFor(S, c, b) : TRUE
         IN Emit(Emit(Send(S, S.conversations[conversation].patient, b.text),
                      MessageCreated("CLINICIAN", 0, 0)),
                 AuditCreated(c, "MESSAGE_SENT", 0))

\* ClinicianWhatsAppHandler._handle_close
_handle_close(S, c, b) ==
    IF b.a = 0 /\ b.conv = 0 THEN Send(S, c, "USAGE close")
    ELSE IF ConversationFor(S, c, b) = {} THEN Send(S, c, "Session not found")
    ELSE
    LET conversation == CHOOSE i \in ConversationFor(S, c, b) : TRUE
        S1 == [S EXCEPT
                 !.conversations[conversation].status = "COMPLETED",
                 !.assignments = [i \in Indices(@) |->
                     IF /\ @[i].conversation = conversation
                        /\ @[i].clinician = c
                        /\ @[i].status = "ACTIVE"
                     THEN [@[i] EXCEPT !.status = "COMPLETED"] ELSE @[i]],
                 !.availability[c].status = IF @ = "BUSY" THEN "AVAILABLE" ELSE @]
    IN Send(Send(S1, S.conversations[conversation].patient, "SESSION CLOSED"),
            c, "Session closed")

\* args.split()[0].upper() of a status command
StatusArg(b) ==
    CASE b.text = "available" -> "AVAILABLE"
      [] b.text = "busy" -> "BUSY"
      [] b.text = "offline" -> "OFFLINE"
      [] OTHER -> b.text

\* ClinicianWhatsAppHandler._handle_status
_handle_status(S, c, b) ==
    IF b.text = "" THEN Send(S, c, "USAGE status")
    ELSE IF StatusArg(b) \notin {"AVAILABLE", "BUSY", "OFFLINE"} THEN Send(S, c, "Invalid status")
    ELSE Send(Emit([S EXCEPT !.availability[c].status = StatusArg(b)],
                   AuditCreated(c, "AVAILABILITY_UPDATED", 0)),
              c, "Status updated")


\* ---------------------------------------------------- modification workflow
NewModificationSession(c, a, t) ==
    [status |-> "IN_PROGRESS", clinician |-> c, assessment |-> a,
     modified_otc_suggestions |-> Null, modified_recommendations |-> Null,
     modified_monitoring_advice |-> Null, clinician_notes |-> NoText,
     validation_result |-> NoValidation, sent_with_warnings |-> FALSE,
     current_step |-> "MEDICATIONS", created_at |-> t]

\* ModificationSession.is_expired at clock reading t
is_expired(session, t) == t - session.created_at > TTL

\* the filter with a strict comparison: a session exactly one TTL old, which
\* is_expired does not call expired, is not found
ActiveSessionCandidates_strict(S, c) ==
    {i \in Indices(S.mod_sessions) :
        /\ S.mod_sessions[i].clinician = c
        /\ S.mod_sessions[i].status = "IN_PROGRESS"
        /\ S.mod_sessions[i].created_at > S.now - TTL}

\* ClinicianWhatsAppHandler._get_active_modification_session.  The filter
\* reads the clock (S.now); is_expired reads it again, d later.  Returns the
\* state and the session (0: None).
ActiveSessionCandidates(S, c) ==
    {i \in Indices(S.mod_sessions) :
        /\ S.mod_sessions[i].clinician = c
        /\ S.mod_sessions[i].status = "IN_PROGRESS"
        /\ S.mod_sessions[i].created_at >= S.now - TTL}

_get_active_modification_session(S, c, d) ==
    IF ActiveSessionCandidates(S, c) = {} THEN [S |-> S, session |-> 0]
    ELSE LET session == Max(ActiveSessionCandidates(S, c))
             S1 == [S EXCEPT !.now = @ + d]
         IN IF is_expired(S1.mod_sessions[session], S1.now)
            THEN [S |-> Send([S1 EXCEPT !.mod_sessions[session].status = "EXPIRED"],
                             c, "Modification session expired"),
                  session |-> 0]
            ELSE [S |-> S1, session |-> session]

\* ClinicianWhatsAppHandler._send_modification_step: the prompt of the
\* session's current step
_send_modification_step(S, c, s) == Send(S, c, S.mod_sessions[s].current_step)

\* ClinicianWhatsAppHandler._start_modify_workflow
_start_modify_workflow(S, c, b) ==
    IF b.a = 0 THEN Send(S, c, "USAGE modify")
    ELSE IF _get_assessment_by_id(S, c, b.a) = {} THEN Send(S, c, "Assessment not found")
    ELSE LET S1 == [S EXCEPT !.mod_sessions = Append(@, NewModificationSession(c, b.a, S.now))]
         IN _send_modification_step(Send(S1, c, "MODIFYING ASSESSMENT"), c, Len(S1.mod_sessions))

\* ClinicianWhatsAppHandler._parse_medication: the parsed medication, if the
\* text has three '|'-separated parts
_parse_medication(med_text) ==
    CASE med_text = "ibuprofen|2000mg|every hour" -> <<Med("ibuprofen", "2000mg", "every hour")>>
      [] OTHER -> <<>>

\* response.replace('add', '').strip()
AddText(b) == IF b.cmd = "add" THEN b.text ELSE b.cmd

\* response.split()[-1]
LastWord(b) == IF b.text = "" THEN b.cmd ELSE b.text

\* the index test with -1 let through
ValidIndex_from_minus_one(idx, seq) == -1 <= idx /\ idx < Len(seq)

\* `if 0 <= idx < len(meds)`
ValidIndex(idx, seq) == 0 <= idx /\ idx < Len(seq)

RemoveAt(seq, i) == [j \in 1..(Len(seq) - 1) |-> IF j < i THEN seq[j] ELSE seq[j + 1]]

\* _finalize_modifications without the session marked COMPLETED
_finalize_modifications_left_open(S, c, s) ==
    Send(Emit([Emit(S, ReviewCreated(c, "MODIFIED", S.mod_sessions[s].assessment, s))
                  EXCEPT !.assessments[S.mod_sessions[s].assessment].status = "MODIFIED"],
              AuditCreated(c, "ASSESSMENT_MODIFIED", S.mod_sessions[s].assessment)),
         c, "ASSESSMENT MODIFIED")

\* ClinicianWhatsAppHandler._finalize_modifications
_finalize_modifications(S, c, s) ==
    Send(Emit([Emit(S, ReviewCreated(c, "MODIFIED", S.mod_sessions[s].assessment, s))
                  EXCEPT !.assessments[S.mod_sessions[s].assessment].status = "MODIFIED",
                         !.mod_sessions[s].status = "COMPLETED"],
              AuditCreated(c, "ASSESSMENT_MODIFIED", S.mod_sessions[s].assessment)),
         c, "ASSESSMENT MODIFIED")

\* one content step of _handle_modification_workflow: field is the session's
\* block, original_field the assessment's, next_step the step that follows
ContentStep(S, c, s, b, field, original_field, next_step) ==
    LET mod_session == S.mod_sessions[s]
        assessment == S.assessments[mod_session.assessment]
        original == OrElse(assessment[original_field], Block(<<>>))
        copied == IF mod_session[field] = Null THEN Block(Get(original)) ELSE mod_session[field]
    IN IF IsExactly(b, "1")
       THEN LET S1 == [S EXCEPT !.mod_sessions[s][field] = IF @ = Null THEN original ELSE @,
                                !.mod_sessions[s].current_step = next_step]
            IN _send_modification_step(Send(S1, c, "Keeping as is"), c, s)
       ELSE IF StartsWith(b, "2") \/ StartsWith(b, "add")
       THEN IF field = "modified_otc_suggestions"
            THEN IF _parse_medication(AddText(b)) # <<>>
                 THEN Send([S EXCEPT !.mod_sessions[s][field] =
                               Block(Get(copied) \o _parse_medication(AddText(b)))],
                           c, "Added")
                 ELSE Send(S, c, "Invalid format")
            ELSE Send([S EXCEPT !.mod_sessions[s][field] = Block(Append(Get(copied), AddText(b)))],
                      c, "Added")
       ELSE IF IsExactly(b, "3")
       THEN LET S1 == [S EXCEPT !.mod_sessions[s][field] = Block(<<>>),
                                !.mod_sessions[s].current_step = next_step]
            IN _send_modification_step(Send(S1, c, "All removed"), c, s)
       ELSE IF StartsWith(b, "remove")
       THEN IF ~IsInt(LastWord(b)) THEN Send(S, c, "Invalid format")
            ELSE IF ValidIndex(IntOf(LastWord(b)) - 1, Get(copied))
            THEN Send([S EXCEPT !.mod_sessions[s][field] =
                          Block(RemoveAt(Get(copied), IntOf(LastWord(b))))],
                      c, "Removed")
            ELSE Send(S, c, "Invalid index")
       ELSE S

\* the workflow where the step after MEDICATIONS is MONITORING
_handle_modification_workflow_skipping(S, c, b, s) ==
    LET current_step == S.mod_sessions[s].current_step
    IN CASE current_step = "MEDICATIONS" ->
              ContentStep(S, c, s, b, "modified_otc_suggestions", "otc_suggestions",
                          "MONITORING")
         [] current_step = "RECOMMENDATIONS" ->
              ContentStep(S, c, s, b, "modified_recommendations",
                          "preliminary_recommendations", "MONITORING")
         [] current_step = "MONITORING" ->
              ContentStep(S, c, s, b, "modified_monitoring_advice", "monitoring_advice",
                          "NOTES")
         [] current_step = "NOTES" ->
              LET S1 == [S EXCEPT !.mod_sessions[s].clinician_notes =
                                      IF IsExactly(b, "1") THEN NoText ELSE b,
                                  !.mod_sessions[s].current_step = "CONFIRM"]
              IN _send_modification_step(
                     Send(S1, c, IF IsExactly(b, "1") THEN "Skipping note" ELSE "Note saved"),
                     c, s)
         [] current_step = "CONFIRM" ->
              IF StartsWith(b, "1") \/ StartsWith(b, "confirm")
              THEN _finalize_modifications(S, c, s)
              ELSE IF StartsWith(b, "2") \/ StartsWith(b, "cancel")
              THEN Send([S EXCEPT !.mod_sessions[s].status = "CANCELLED"],
                        c, "Modification cancelled")
              ELSE S
         [] OTHER -> S

\* ClinicianWhatsAppHandler._handle_modification_workflow
_handle_modification_workflow(S, c, b, s) ==
    LET current_step == S.mod_sessions[s].current_step
    IN CASE current_step = "MEDICATIONS" ->
              ContentStep(S, c, s, b, "modified_otc_suggestions", "otc_suggestions",
                          "RECOMMENDATIONS")
         [] current_step = "RECOMMENDATIONS" ->
              ContentStep(S, c, s, b, "modified_recommendations",
                          "preliminary_recommendations", "MONITORING")
         [] current_step = "MONITORING" ->
              ContentStep(S, c, s, b, "modified_monitoring_advice", "monitoring_advice",
                          "NOTES")
         [] current_step = "NOTES" ->
              LET S1 == [S EXCEPT !.mod_sessions[s].clinician_notes =
                                      IF IsExactly(b, "1") THEN NoText ELSE b,
                                  !.mod_sessions[s].current_step = "CONFIRM"]
              IN _send_modification_step(
                     Send(S1, c, IF IsExactly(b, "1") THEN "Skipping note" ELSE "Note saved"),
                     c, s)
         [] current_step = "CONFIRM" ->
              IF StartsWith(b, "1") \/ StartsWith(b, "confirm")
              THEN _finalize_modifications(S, c, s)
              ELSE IF StartsWith(b, "2") \/ StartsWith(b, "cancel")
              THEN Send([S EXCEPT !.mod_sessions[s].status = "CANCELLED"],
                        c, "Modification cancelled")
              ELSE S
         [] OTHER -> S

\* ClinicianWhatsAppHandler.process_clinician_message for the body b of
\* clinician c
process_clinician_message(S, c, b, d) ==
    LET r == _get_active_modification_session(S, c, d)
        command == b.cmd
        logged == Emit(r.S, AuditCreated(c, "MESSAGE_RECEIVED", 0))
    IN IF r.session # 0 THEN _handle_modification_workflow(r.S, c, b, r.session)
       ELSE CASE command = "send_anyway" ->
                   IF b.a # 0 /\ b.s # 0 THEN _handle_send_anyway(logged, c, b.a, b.s) ELSE logged
              [] command = "confirm_send" ->
                   IF b.a # 0 /\ b.s # 0 THEN _handle_confirm_send(logged, c, b.a, b.s) ELSE logged
              [] command = "help" -> Send(logged, c, "help")
              [] command = "pending" -> Send(logged, c, "pending assessments")
              [] command = "modify" -> _start_modify_workflow(logged, c, b)
              [] command = "escalations" -> Send(logged, c, "escalations")
              [] command = "patients" -> Send(logged, c, "active patients")
              [] command = "approve" -> _handle_approve(logged, c, b)
              [] command = "reject" -> _handle_reject(logged, c, b)
              [] command = "send" -> _handle_send(logged, c, b)
              [] command = "message" -> _handle_message(logged, c, b)
              [] command = "status" -> _handle_status(logged, c, b)
              [] command \in {"close", "discharge"} -> _handle_close(logged, c, b)
              [] OTHER -> Send(logged, c, "Unknown command")


\* ----------------------------------------------------------------- actions
\* what the text-generation service does during an invocation: answers,
\* answers with empty text, answers with text that is not JSON, or fails
GeneratorOutcomes == {"ok", "empty", "bad_json", "raise"}

\* the bounds of a run, as a guard on the state an action leaves; lim holds
\* the rows the run may have in the tables whose bound depends on the run
Limits(conversation_rows, session_rows) ==
    [conversations |-> conversation_rows, mod_sessions |-> session_rows]

Bounded(S, lim) ==
    /\ Len(S.conversations) <= lim.conversations
    /\ Len(S.payments) <= MaxPayments
    /\ Len(S.mod_sessions) <= lim.mod_sessions
    /\ S.now <= MaxTime
    /\ \A a \in Indices(S.assessments) : S.dispatch_count[a] <= MaxDispatch
    /\ \A i \in Indices(S.conversations) : S.conversations[i].ai_questions_asked <= MaxAsked
    /\ \A i \in Indices(S.mod_sessions) :
          /\ Len(S.mod_sessions[i].modified_otc_suggestions.items) <= MaxItems
          /\ Len(S.mod_sessions[i].modified_recommendations.items) <= MaxItems
          /\ Len(S.mod_sessions[i].modified_monitoring_advice.items) <= MaxItems

\* the availability row _assign_clinician may pick (NoClinician: none)
Picks(S) == IF AssignableClinicians(S) = {} THEN {NoClinician} ELSE AssignableClinicians(S)

\* the webhook delivers the text m of patient p
Deliver(kind, p, m, g, pick, lim) ==
    LET S == process_incoming_message(Begin(St, Event(kind, p, m, 0, 0)), p, m, g, pick)
    IN Bounded(S, lim) /\ Commit(S)

\* What a patient writes next: the replies the last prompt asks for, a
\* greeting that answers no prompt, and a description of an emergency.
Replies(p) ==
    LET active == ActiveConversations(St, p)
        conv == conversations[Max(active)]
        status == IF active = {} THEN "NONE" ELSE conv.status
        asked == CASE status = "AWAITING_ACCEPTANCE" -> {"GET STARTED", "DECLINE"}
                   [] status = "MODE_SELECTION" -> {"1", "2"}
                   [] status = "AI_ONLY_ACTIVE" -> {"i have a headache", "connect me to a doctor"}
                   [] status = "ESCALATION_CONSENT" -> {"YES", "NO"}
                   [] status = "AWAITING_PATIENT_PROFILE" ->
                        IF profile[p].age = 0 THEN {"2"}
                        ELSE IF profile[p].gender = "" THEN {"male"}
                        ELSE {"i have a headache"}
                   [] status = "AI_TRIAGE_IN_PROGRESS" -> {""}
                   [] status = "PENDING_PAYMENT" -> {"1", "2"}
                   [] OTHER -> {}
    IN asked \cup {"hello", "severe chest pain"}

\* The text-generation service is called by the handlers of these statuses
\* only; what it would have done is immaterial to every other invocation.
GeneratingStatuses == {"AI_ONLY_ACTIVE", "AWAITING_PATIENT_PROFILE", "AI_TRIAGE_IN_PROGRESS"}

Generated(p, outcomes) ==
    IF \E i \in ActiveConversations(St, p) : conversations[i].status \in GeneratingStatuses
    THEN outcomes
    ELSE {"ok"}

\* a patient sends a message
PatientMessage(outcomes, lim) ==
    \E p \in Patients, pick \in Picks(St) :
        \E g \in Generated(p, outcomes), m \in Replies(p) : Deliver("in", p, m, g, pick, lim)

\* the channel delivers the patient's last message once more
Redelivery(outcomes, lim) ==
    \E p \in Patients, pick \in Picks(St) : \E g \in Generated(p, outcomes) :
        /\ events # <<>>
        /\ events[1].kind \in {"in", "again"}
        /\ events[1].to = p
        /\ Deliver("again", p, events[1].what, g, pick, lim)

\* the payment provider confirms the charge of a PaymentHistory row
PaymentConfirmed(lim) ==
    \E tx_ref \in Indices(payments), pick \in Picks(St) :
        LET S == payment_confirmed(Begin(St, Event("paid", payments[tx_ref].user, "", 0, 0)),
                                   tx_ref, pick)
        IN Bounded(S, lim) /\ Commit(S)

\* a clinician sends one of the bodies of bodies; d is the time that passes
\* between the two clock readings of _get_active_modification_session
\* At the note prompt every text but "1" is the note: the clinician skips or
\* writes one.
AtNotePrompt(c) ==
    /\ ActiveSessionCandidates(St, c) # {}
    /\ mod_sessions[Max(ActiveSessionCandidates(St, c))].current_step = "NOTES"

Typed(c, bodies) ==
    IF AtNotePrompt(c) THEN {Body("1", 0, 0, 0, ""), Body("take", 0, 0, 0, "with food")}
    ELSE bodies

ClinicianMessage(bodies, drift, lim) ==
    \E c \in Clinicians, d \in drift : \E b \in Typed(c, bodies) :
        LET S == process_clinician_message(Begin(St, Event("in", c, b.cmd, b.a, b.s)), c, b, d)
        IN Bounded(S, lim) /\ Commit(S)

\* an hour passes
Tick ==
    /\ now < MaxTime
    /\ now' = now + 1
    /\ events' = <<>>
    /\ UNCHANGED <<conversations, profile, triage_questions, assessments, escalation_alerts,
                   payments, availability, assignments, mod_sessions, dispatch_count,
                   invocations>>

\* --------------------------------------------------- the whole platform
\* a new deployment: registered patients and clinicians, nothing else
Init ==
    /\ conversations = <<>>
    /\ profile \in [Patients -> [terms_accepted : {FALSE}, age : {0}, gender : {""},
                                 consultation_credits : 0..MaxCredits]]
    /\ triage_questions = <<>>
    /\ assessments = <<>>
    /\ escalation_alerts = <<>>
    /\ payments = <<>>
    /\ availability = [c \in Clinicians |-> [status |-> "AVAILABLE", current_patient_count |-> 0]]
    /\ assignments = <<>>
    /\ mod_sessions = <<>>
    /\ dispatch_count = <<>>
    /\ now = 0
    /\ events = <<>>
    /\ invocations = NoInvocations

\* the commands of a clinician who reviews without modifying
ReviewBodies(assessment_rows) ==
    {Body(cmd, a, 0, 0, "") : cmd \in {"approve", "send", "close"}, a \in 1..assessment_rows}

FirstConsultation == Limits(MaxConversations, 0)

PatientStep == PatientMessage(GeneratorOutcomes, FirstConsultation)
RedeliveryStep == Redelivery(GeneratorOutcomes, FirstConsultation)
PaymentStep == PaymentConfirmed(FirstConsultation)
FirstReviewBodies == ReviewBodies(MaxConversations)
NoDrift == {0}

ReviewStep == ClinicianMessage(FirstReviewBodies, NoDrift, FirstConsultation)

Next ==
    \/ PatientStep
    \/ RedeliveryStep
    \/ PaymentStep
    \/ ReviewStep

Spec == Init /\ [][Next]_vars

\* ------------------------------------------- an assessment under review
\* The state a first consultation leaves when its assessment reaches the
\* clinician: the patient is onboarded, has answered the triage questions
\* and spent a credit, and the assessment is assigned for review.
ReviewedConversation(p, c) ==
    [NewConversation(p) EXCEPT !.status = "PENDING_CLINICIAN_REVIEW", !.mode = "CLINICIAN",
                               !.assigned_clinician = c,
                               !.chief_complaint = "i have a headache",
                               !.ai_questions_asked = MAX_TRIAGE_QUESTIONS, !.is_paid = TRUE]

AnsweredQuestion(cid, order) ==
    [NewQuestion(cid, "ai question", order) EXCEPT !.patient_response = "hello",
                                                   !.response_processed = TRUE]

UnderReview(payload) ==
    /\ conversations = <<ReviewedConversation("p1", "c1")>>
    /\ profile = [p \in Patients |-> [consultation_credits |-> 0, terms_accepted |-> TRUE,
                                      age |-> 2, gender |-> "MALE"]]
    /\ triage_questions = <<AnsweredQuestion(1, 1), AnsweredQuestion(1, 3)>>
    /\ assessments = <<[otc_suggestions |-> payload.otc_suggestions,
                        preliminary_recommendations |-> payload.preliminary_recommendations,
                        monitoring_advice |-> payload.monitoring_advice,
                        likely_condition |-> payload.likely_condition,
                        status |-> "PENDING_REVIEW", patient |-> "p1", conversation |-> 1,
                        sent_to_patient_at |-> -1]>>
    /\ escalation_alerts = <<>>
    /\ payments = <<>>
    /\ availability = [c \in Clinicians |-> [status |-> "AVAILABLE", current_patient_count |-> 0]]
    /\ assignments = <<[status |-> "ACTIVE", patient |-> "p1", clinician |-> "c1",
                        conversation |-> 1]>>
    /\ mod_sessions = <<>>
    /\ dispatch_count = <<0>>
    /\ now = 0
    /\ events = <<>>
    /\ invocations = NoInvocations

InitReview == UnderReview(GeneratedPayload)

\* what a clinician types while reviewing and modifying the assessment
CriticalMedication == "ibuprofen|2000mg|every hour"

CommandBodies(sessions) ==
    {Body(cmd, 1, 0, 0, "") : cmd \in {"approve", "reject", "modify", "send"}}
    \cup {Body(cmd, 1, s, 0, "") : cmd \in {"confirm_send", "send_anyway"}, s \in 1..sessions}

WorkflowBodies ==
    {Body("1", 0, 0, 0, ""), Body("3", 0, 0, 0, ""), Body("add", 0, 0, 0, CriticalMedication),
     Body("remove", 0, 0, 0, "1"), Body("confirm", 0, 0, 0, ""), Body("cancel", 0, 0, 0, "")}

Reviewing == Limits(1, MaxModSessions)

ReviewCommands == CommandBodies(MaxModSessions)

CommandStep == ClinicianMessage(ReviewCommands, NoDrift, Reviewing)
WorkflowStep == ClinicianMessage(WorkflowBodies, NoDrift, Reviewing)

NextReview ==
    \/ CommandStep
    \/ WorkflowStep

SpecReview == InitReview /\ [][NextReview]_vars


\* ------------------------------------------------ sessions that grow old
\* the same review, with the clock running: what the clinician types is a
\* command or a reply to a workflow prompt
AgingBodies ==
    {Body("modify", 1, 0, 0, ""), Body("send", 1, 0, 0, ""), Body("1", 0, 0, 0, ""),
     Body("confirm", 0, 0, 0, ""), Body("cancel", 0, 0, 0, "")}

Aging == Limits(1, MaxAgingSessions)

ClockDrift == {0, 1}

AgingStep == ClinicianMessage(AgingBodies, ClockDrift, Aging)

NextAging ==
    \/ AgingStep
    \/ Tick

SpecAging == InitReview /\ [][NextAging]_vars


\* ------------------------------------------------- a patient who returns
\* the reviewed consultation, with the patient writing again at any time
Returning == Limits(1 + MaxConversations, 0)

GeneratorAnswers == {"ok"}
ReturnReviewBodies == ReviewBodies(1 + MaxConversations)

ReturnStep == PatientMessage(GeneratorAnswers, Returning)
ReturnPaymentStep == PaymentConfirmed(Returning)
ReturnReviewStep == ClinicianMessage(ReturnReviewBodies, NoDrift, Returning)

NextReturn ==
    \/ ReturnStep
    \/ ReturnPaymentStep
    \/ ReturnReviewStep

SpecReturn == InitReview /\ [][NextReturn]_vars


\* ------------------------------------------- keeping the original blocks
\* What _generate_assessment stores for a block: assessment_json.get(key, {})
\* is {} when the generated JSON has no such key, else the dict it carries,
\* whose list may be empty.
StoredBlocks(items) == {EmptyDict, Block(<<>>), Block(items)}

StoredPayloads ==
    [otc_suggestions : StoredBlocks(Get(GeneratedPayload.otc_suggestions)),
     preliminary_recommendations : StoredBlocks(Get(GeneratedPayload.preliminary_recommendations)),
     monitoring_advice : StoredBlocks(Get(GeneratedPayload.monitoring_advice)),
     likely_condition : {GeneratedPayload.likely_condition}]

InitKeep == \E payload \in StoredPayloads : UnderReview(payload)

\* the clinician opens the workflow, keeps every block (1), skips or writes
\* the note, and confirms
KeepBodies ==
    {Body("modify", 1, 0, 0, ""), Body("1", 0, 0, 0, ""), Body("confirm", 0, 0, 0, "")}

KeepStep == ClinicianMessage(KeepBodies, NoDrift, Reviewing)

NextKeep == KeepStep

SpecKeep == InitKeep /\ [][NextKeep]_vars


\* ------------------------------------------------- paying for the review
\* A first consultation in which the clinician goes off and on duty while
\* the patient is served and pays.
AvailabilityBodies ==
    {Body("status", 0, 0, 0, "offline"), Body("status", 0, 0, 0, "available")}

AvailabilityStep == ClinicianMessage(AvailabilityBodies, NoDrift, FirstConsultation)
PaidPatientStep == PatientMessage(GeneratorAnswers, FirstConsultation)

NextPayment ==
    \/ PaidPatientStep
    \/ PaymentStep
    \/ AvailabilityStep

SpecPayment == Init /\ [][NextPayment]_vars


\* ------------------------------------- two answers delivered at one time
\* The channel delivers two messages of a patient who is answering the first
\* triage question, and a web worker runs process_incoming_message for each.
\* Nothing in MessageHandler takes a lock or opens a transaction, so the
\* database accesses of the two invocations interleave: each access is one
\* step.  An invocation keeps its own copy of the conversation row (the
\* model instance) and writes every field of it back in save().
Answers == {"hello", "it hurts"}

AnsweringConversation(p) ==
    [NewConversation(p) EXCEPT !.status = "AI_TRIAGE_IN_PROGRESS", !.mode = "CLINICIAN",
                               !.chief_complaint = "i have a headache",
                               !.ai_questions_asked = 1]

\* an invocation for the text m: where it is (pc), its copy of the
\* conversation row and the question it has read (0: none)
Invocation(m, conv) ==
    [m |-> m, conversation |-> conv, last_question |-> 0, pc |-> "load"]

InitConcurrent ==
    /\ conversations = <<AnsweringConversation("p1")>>
    /\ profile \in [Patients -> [terms_accepted : {TRUE}, age : {2}, gender : {"MALE"},
                                 consultation_credits : 0..MaxCredits]]
    /\ triage_questions = <<NewQuestion(1, "ai question", 1)>>
    /\ assessments = <<>>
    /\ escalation_alerts = <<>>
    /\ payments = <<>>
    /\ availability = [c \in Clinicians |-> [status |-> "AVAILABLE", current_patient_count |-> 0]]
    /\ assignments = <<>>
    /\ mod_sessions = <<>>
    /\ dispatch_count = <<>>
    /\ now = 0
    /\ events = <<>>
    /\ \E a \in Answers, b \in Answers :
          invocations = [delivered |-> St,
                         handlers |-> <<Invocation(a, conversations[1]),
                                        Invocation(b, conversations[1])>>]

\* invocation h goes on to pc with the rows of S in the database
Proceed(S, h, inv) ==
    /\ Persist(S)
    /\ invocations' = [invocations EXCEPT !.handlers[h] = inv]

\* process_incoming_message up to _route_message: the conversation row is
\* read.  An invocation that does not find the conversation in triage is the
\* only one still running the triage handler's accesses, or none is: the
\* rest of it is one step.
LoadConversation ==
    \E h \in {1, 2}, pick \in Picks(St) :
        LET inv == invocations.handlers[h]
            conv == conversations[1]
        IN /\ inv.pc = "load"
           /\ IF conv.status = "AI_TRIAGE_IN_PROGRESS"
              THEN Proceed(St, h, [inv EXCEPT !.conversation = conv, !.pc = "read"])
              ELSE Proceed(process_incoming_message(
                               Begin(St, Event("in", "p1", inv.m, 0, 0)), "p1", inv.m, "ok", pick),
                           h, [inv EXCEPT !.pc = "done"])

\* _handle_triage_response: the first unprocessed question is read
ReadQuestion ==
    \E h \in {1, 2} :
        LET inv == invocations.handlers[h]
        IN /\ inv.pc = "read"
           /\ Proceed(St, h,
                       [inv EXCEPT !.last_question = IF Unprocessed(St, 1) = {} THEN 0
                                                     ELSE FirstUnprocessed(St, 1),
                                   !.pc = "answer"])

\* last_question.save() with the patient's response
SaveAnswer ==
    \E h \in {1, 2} :
        LET inv == invocations.handlers[h]
            q == inv.last_question
        IN /\ inv.pc = "answer"
           /\ Proceed(IF q = 0 THEN St
                       ELSE [St EXCEPT !.triage_questions[q].patient_response = inv.m,
                                       !.triage_questions[q].response_processed = TRUE],
                       h, [inv EXCEPT !.pc = "ask"])

\* conversation.ai_questions_asked += 1 on the invocation's copy, then the
\* assessment is generated (with the saves of the copy that go with it) or
\* the next TriageQuestion row is created and sent
AskNext ==
    \E h \in {1, 2}, pick \in Picks(St) :
        LET inv == invocations.handlers[h]
            asked == inv.conversation.ai_questions_asked + 1
            conv == [inv.conversation EXCEPT !.ai_questions_asked = asked]
            S == Begin(St, Event("in", "p1", inv.m, 0, 0))
        IN /\ inv.pc = "ask"
           /\ IF asked >= MAX_TRIAGE_QUESTIONS
              THEN IF \E a \in Indices(assessments) : assessments[a].conversation = 1
                   THEN Proceed(_generate_assessment(S, "p1", 1, "ok", pick), h,
                                [inv EXCEPT !.conversation = conv, !.pc = "save"])
                   ELSE LET S1 == _generate_assessment([S EXCEPT !.conversations[1] = conv],
                                                       "p1", 1, "ok", pick)
                        IN Proceed(S1, h, [inv EXCEPT !.conversation = S1.conversations[1],
                                                     !.pc = "save"])
              ELSE Proceed(Send([S EXCEPT !.triage_questions =
                                     Append(@, NewQuestion(1, generate_next_question("ok"),
                                                           asked + 1))],
                                "p1", generate_next_question("ok")),
                           h, [inv EXCEPT !.conversation = conv, !.pc = "save"])

\* conversation.save(): every field of the copy is written
SaveConversation ==
    \E h \in {1, 2} :
        LET inv == invocations.handlers[h]
        IN /\ inv.pc = "save"
           /\ Proceed([St EXCEPT !.conversations[1] = inv.conversation], h,
                       [inv EXCEPT !.pc = "done"])

NextConcurrent ==
    \/ LoadConversation
    \/ ReadQuestion
    \/ SaveAnswer
    \/ AskNext
    \/ SaveConversation

SpecConcurrent == InitConcurrent /\ [][NextConcurrent]_vars


\* ------------------------------------------------------------------ claims
\* C1: once a ModificationSession has been validated with recommendation
\* DO_NOT_SEND, no clinician message dispatches the assessment with that
\* session's content (its content cannot change any more, so every later
\* dispatch of it is a dispatch without a new, re-validated modification);
\* in particular send_anyway does not.
C1_DoNotSendBlocksDispatch ==
    [][\A i \in 1..Len(events') :
          events'[i].kind = "dispatch" /\ events'[i].s \in Indices(mod_sessions)
          => mod_sessions[events'[i].s].validation_result.recommendation # "DO_NOT_SEND"]_vars

\* C2: a dispatch of a session's content by confirm_send happens only when
\* the session's stored validation recommended SEND, and by send_anyway only
\* when it recommended REVIEW; a session that was never validated is never
\* dispatched.
C2_DispatchOnlyAfterValidation ==
    [][\A i \in 1..Len(events') :
          events'[i].kind = "dispatch" /\ events'[i].s \in Indices(mod_sessions)
          => LET recommendation ==
                     mod_sessions[events'[i].s].validation_result.recommendation
             IN /\ recommendation # ""
                /\ events'[1].what = "confirm_send" => recommendation = "SEND"
                /\ events'[1].what = "send_anyway" => recommendation = "REVIEW"]_vars

\* C3: in every reachable state a clinician has at most one
\* ModificationSession whose status is IN_PROGRESS.
C3_OneSessionInProgress ==
    \A c \in Clinicians :
        Cardinality({s \in Indices(mod_sessions) :
                        /\ mod_sessions[s].clinician = c
                        /\ mod_sessions[s].status = "IN_PROGRESS"}) <= 1

\* C4: in every reachable state a patient has at most one ConversationSession
\* in a non-terminal status.
C4_OneActiveConversation ==
    \A p \in Patients :
        Cardinality({i \in Indices(conversations) :
                        conversations[i].patient = p /\ is_active(conversations[i])}) <= 1

\* C5: when the channel delivers again a message that is already recorded as
\* an answer of the patient's conversation in AI_TRIAGE_IN_PROGRESS, the
\* invocation records no answer, creates no TriageQuestion, sends nothing and
\* leaves ai_questions_asked as it is.
C5_RedeliveryIsIgnored ==
    [][\A p \in Patients :
          (/\ Len(events') > 0
           /\ events'[1].kind = "again"
           /\ events'[1].to = p
           /\ ActiveConversations(St, p) # {}
           /\ LET cid == Max(ActiveConversations(St, p))
              IN /\ conversations[cid].status = "AI_TRIAGE_IN_PROGRESS"
                 /\ \E q \in Indices(triage_questions) :
                       /\ triage_questions[q].conversation = cid
                       /\ triage_questions[q].response_processed
                       /\ triage_questions[q].patient_response = events'[1].what)
          => /\ triage_questions' = triage_questions
             /\ conversations'[Max(ActiveConversations(St, p))].ai_questions_asked
                  = conversations[Max(ActiveConversations(St, p))].ai_questions_asked
             /\ \A i \in 1..Len(events') : events'[i].kind # "out"]_vars

\* C6: a patient message with a red-flag keyword, received while the patient
\* has a conversation in a non-terminal status, creates an EscalationAlert of
\* severity CRITICAL in the same invocation, before any outbound message.
C6_RedFlagRaisesAlert ==
    [][\A p \in Patients :
          (/\ Len(events') > 0
           /\ events'[1].kind \in {"in", "again"}
           /\ events'[1].to = p
           /\ _check_red_flags(events'[1].what)
           /\ \E i \in Indices(conversations) :
                 conversations[i].patient = p /\ is_active(conversations[i]))
          => \E i \in 1..Len(events') :
                /\ events'[i].kind = "alert"
                /\ events'[i].what = "CRITICAL"
                /\ \A j \in 1..(i - 1) : events'[j].kind # "out"]_vars

\* C7: an assessment is dispatched to the patient at most once.
C7_DispatchedAtMostOnce ==
    \A a \in Indices(assessments) : dispatch_count[a] <= 1

\* C8 as claimed: every dispatch happens in the invocation of a confirm_send
\* or send_anyway command; send by itself never dispatches.
C8_SendNeverDispatches ==
    [][\A i \in 1..Len(events') :
          events'[i].kind = "dispatch"
          => events'[1].what \in {"confirm_send", "send_anyway"}]_vars

\* C8: every dispatch happens either in the invocation of a send command
\* naming an APPROVED or MODIFIED assessment for which the clinician has no
\* COMPLETED ModificationSession, and then carries the original content, or
\* in the invocation of a confirm_send or send_anyway command naming the
\* assessment and a COMPLETED ModificationSession of that clinician; send on
\* an assessment that has such a session never dispatches.
C8_DispatchNeedsItsCommand ==
    [][\A i \in 1..Len(events') :
          events'[i].kind = "dispatch"
          => /\ events'[1].kind = "in"
             /\ events'[1].to \in Clinicians
             /\ events'[i].a = events'[1].a
             /\ \/ /\ events'[1].what = "send"
                   /\ events'[i].s = 0
                   /\ assessments[events'[i].a].status \in {"APPROVED", "MODIFIED"}
                   /\ CompletedSessions(St, events'[1].to, events'[i].a) = {}
                \/ /\ events'[1].what \in {"confirm_send", "send_anyway"}
                   /\ events'[i].s = events'[1].s
                   /\ events'[i].s \in Indices(mod_sessions)
                   /\ mod_sessions[events'[i].s].status = "COMPLETED"
                   /\ mod_sessions[events'[i].s].clinician = events'[1].to]_vars

\* C8 happens: the invocation of a send command for an approved assessment
\* without a COMPLETED session has dispatched the original content
C8_Witness ==
    /\ Len(events) > 0
    /\ events[1].kind = "in"
    /\ events[1].what = "send"
    /\ \E i \in 1..Len(events) :
          /\ events[i].kind = "dispatch"
          /\ events[i].a = events[1].a
          /\ events[i].s = 0
          /\ assessments[events[i].a].status = "SENT_TO_PATIENT"

\* C9: when a clinician's IN_PROGRESS ModificationSession is older than the
\* TTL, the invocation for the clinician's next message leaves it EXPIRED.
C9_AgedSessionExpires ==
    [][\A s \in Indices(mod_sessions) :
          (/\ mod_sessions[s].status = "IN_PROGRESS"
           /\ now - mod_sessions[s].created_at > TTL
           /\ Len(events') > 0
           /\ events'[1].kind = "in"
           /\ events'[1].to = mod_sessions[s].clinician)
          => mod_sessions'[s].status = "EXPIRED"]_vars

\* C10: when assessment generation has produced an assessment, the
\* conversation has been sent exactly MAX_TRIAGE_QUESTIONS triage questions
\* (every TriageQuestion row is created with the question that is sent).
C10_ExactlyMaxQuestions ==
    \A a \in Indices(assessments) :
        Cardinality({q \in Indices(triage_questions) :
                        triage_questions[q].conversation = assessments[a].conversation})
            = MAX_TRIAGE_QUESTIONS

\* C11: for every conversation, the question_order values of its
\* TriageQuestion rows, taken in creation order, are exactly 1, 2, ..., n.
C11_OrdersHaveNoGaps ==
    \A cid \in Indices(conversations) :
        LET rows == SelectSeq(triage_questions, LAMBDA q : q.conversation = cid)
        IN \A k \in 1..Len(rows) : rows[k].question_order = k

\* C12: in every invocation that moves a conversation to ESCALATION_CONSENT
\* or to ESCALATED, an EscalationAlert referencing that conversation is
\* created.
C12_EscalationRaisesAlert ==
    [][\A cid \in Indices(conversations) :
          (/\ conversations'[cid].status \in {"ESCALATION_CONSENT", "ESCALATED"}
           /\ conversations'[cid].status # conversations[cid].status)
          => \E i \in (Len(escalation_alerts) + 1)..Len(escalation_alerts') :
                 escalation_alerts'[i].conversation = cid]_vars

\* C13: when the clinician has kept the three blocks, skipped the note and
\* confirmed in a fresh ModificationSession, the AssessmentReview that is
\* created carries modified medications, recommendations and monitoring
\* blocks equal to the assessment's three original blocks.
C13_KeepingCopiesTheOriginal ==
    [][\A i \in 1..Len(events') :
          (/\ events'[i].kind = "review"
           /\ events'[i].what = "MODIFIED"
           /\ mod_sessions'[events'[i].s].clinician_notes = NoText)
          => LET review == mod_sessions'[events'[i].s]
                 assessment == assessments[events'[i].a]
             IN /\ review.modified_otc_suggestions = assessment.otc_suggestions
                /\ review.modified_recommendations = assessment.preliminary_recommendations
                /\ review.modified_monitoring_advice = assessment.monitoring_advice]_vars

C15_ConfirmedTwiceChangesNothing ==
    \A tx_ref \in Indices(payments), pick \in Picks(St) :
        payments[tx_ref].status = "SUCCESS"
        => LET S == Begin(St, Event("paid", payments[tx_ref].user, "", 0, 0))
           IN /\ activate_subscription(S, tx_ref, pick).msg = "Already processed"
              /\ activate_subscription(S, tx_ref, pick).S = S
              /\ payment_confirmed(S, tx_ref, pick) = S

\* C15 happens: a confirmation has been delivered for a transaction that
\* was already SUCCESS (the invocation has sent nothing)
C15_Witness ==
    /\ events = <<Event("paid", "p1", "", 0, 0)>>
    /\ \E tx_ref \in Indices(payments) :
          /\ payments[tx_ref].user = "p1"
          /\ payments[tx_ref].status = "SUCCESS"
    /\ \A tx_ref \in Indices(payments) : payments[tx_ref].status = "SUCCESS"

\* C16: when a validated ModificationSession contains the medication
\* ibuprofen / 2000mg / every hour, the validator has raised a CRITICAL
\* medication_safety issue for the dosage and another for the frequency,
\* and the stored recommendation is DO_NOT_SEND.
C16_OverdoseIsCritical ==
    \A s \in Indices(mod_sessions) :
        (/\ mod_sessions[s].validation_result # NoValidation
         /\ \E i \in 1..Len(Get(mod_sessions[s].modified_otc_suggestions)) :
                Get(mod_sessions[s].modified_otc_suggestions)[i]
                    = Med("ibuprofen", "2000mg", "every hour"))
        => /\ \E i \in 1..Len(_check_dosage_safety("ibuprofen", "2000mg")) :
                  _check_dosage_safety("ibuprofen", "2000mg")[i]
                      = Issue("medication_safety", "CRITICAL")
           /\ \E i \in 1..Len(_check_frequency_safety("ibuprofen", "every hour")) :
                  _check_frequency_safety("ibuprofen", "every hour")[i]
                      = Issue("medication_safety", "CRITICAL")
           /\ Cardinality({i \in 1..Len(mod_sessions[s].validation_result.issues) :
                              mod_sessions[s].validation_result.issues[i]
                                  = Issue("medication_safety", "CRITICAL")}) >= 2
           /\ mod_sessions[s].validation_result.recommendation = "DO_NOT_SEND"

\* the lists of at most MaxIssues issues, of every type and severity
IssueLists ==
    UNION {[1..n -> {Issue(type, severity) :
                        type \in {"medication_safety", "consistency", "completeness", "quality"},
                        severity \in {"CRITICAL", "HIGH", "MEDIUM", "LOW"}}] : n \in 0..MaxIssues}

\* severity is the highest severity of issues under CRITICAL > HIGH > MEDIUM
\* > LOW, and OK exactly when there is no issue
IsHighestSeverity(severity, issues) ==
    LET order == <<"OK", "LOW", "MEDIUM", "HIGH", "CRITICAL">>
        Rank(x) == CHOOSE k \in 1..Len(order) : order[k] = x
    IN /\ (issues = <<>>) <=> (severity = "OK")
       /\ issues # <<>> =>
             /\ \E i \in 1..Len(issues) : issues[i].severity = severity
             /\ \A i \in 1..Len(issues) : Rank(issues[i].severity) <= Rank(severity)

\* _determine_severity gives the highest severity of every list of IssueLists
HighestOfEveryList ==
    \A issues \in IssueLists : IsHighestSeverity(_determine_severity(issues), issues)

\* C17: for every list of issues, _determine_severity gives the highest
\* severity among them under CRITICAL > HIGH > MEDIUM > LOW, and OK exactly
\* when the list is empty; so is the overall severity every validation has
\* stored with its issues.
C17_SeverityIsTheHighest ==
    /\ HighestOfEveryList
    /\ \A s \in Indices(mod_sessions) :
          mod_sessions[s].validation_result # NoValidation
          => IsHighestSeverity(mod_sessions[s].validation_result.severity,
                               mod_sessions[s].validation_result.issues)

\* C17 happens: a validation has stored issues of different severities, and
\* the overall severity CRITICAL
C17_Witness ==
    \E s \in Indices(mod_sessions) :
        LET result == mod_sessions[s].validation_result
        IN /\ result.severity = "CRITICAL"
           /\ \E i, j \in 1..Len(result.issues) :
                  /\ result.issues[i].severity = "CRITICAL"
                  /\ result.issues[j].severity \in {"HIGH", "MEDIUM", "LOW"}

\* the recommendation the claim gives for an overall severity
RecommendationFor(severity) ==
    CASE severity = "CRITICAL" -> "DO_NOT_SEND"
      [] severity \in {"HIGH", "MEDIUM"} -> "REVIEW"
      [] severity \in {"LOW", "OK"} -> "SEND"

\* _get_recommendation gives RecommendationFor(severity) with every list of
\* IssueLists
SameForEveryList ==
    \A severity \in {"CRITICAL", "HIGH", "MEDIUM", "LOW", "OK"}, issues \in IssueLists :
        _get_recommendation(severity, issues) = RecommendationFor(severity)

\* C18: the recommendation depends on the overall severity only (CRITICAL:
\* DO_NOT_SEND; HIGH, MEDIUM: REVIEW; LOW, OK: SEND), whatever the issues
\* are; so does the recommendation every validation has stored.
C18_RecommendationFollowsSeverity ==
    /\ SameForEveryList
    /\ \A s \in Indices(mod_sessions) :
          mod_sessions[s].validation_result # NoValidation
          => mod_sessions[s].validation_result.recommendation
                 = RecommendationFor(mod_sessions[s].validation_result.severity)

\* C18 happens: a validation with a single MEDIUM issue has stored REVIEW
C18_Witness ==
    \E s \in Indices(mod_sessions) :
        LET result == mod_sessions[s].validation_result
        IN /\ result.severity = "MEDIUM"
           /\ Len(result.issues) = 1
           /\ result.recommendation = "REVIEW"

\* C19: an assessment's status never moves backwards along DRAFT,
\* GENERATED, PENDING_REVIEW, {APPROVED, MODIFIED, REJECTED},
\* SENT_TO_PATIENT, EXPIRED; in particular no clinician command returns a
\* SENT_TO_PATIENT assessment to APPROVED, MODIFIED or REJECTED.
C19_StatusOnlyMovesForward ==
    [][\A a \in Indices(assessments) :
          LET stages == <<{"DRAFT"}, {"GENERATED"}, {"PENDING_REVIEW"},
                          {"APPROVED", "MODIFIED", "REJECTED"}, {"SENT_TO_PATIENT"},
                          {"EXPIRED"}>>
              Stage(status) == CHOOSE k \in 1..Len(stages) : status \in stages[k]
          IN /\ Stage(assessments[a].status) <= Stage(assessments'[a].status)
             /\ assessments[a].status = "SENT_TO_PATIENT"
                => assessments'[a].status \notin {"APPROVED", "MODIFIED", "REJECTED"}]_vars

\* the rows two invocations leave when the second starts after the first has
\* returned: process_incoming_message for a, then for b, from the state S
Serial(S, a, b) ==
    {[process_incoming_message(
          process_incoming_message(S, "p1", a, "ok", first), "p1", b, "ok", second)
         EXCEPT !.events = <<>>] : first \in Picks(S), second \in Picks(S)}

\* C20: when the invocations for two messages of one patient delivered at
\* the same time have both returned, the database is in a state that one of
\* the two sequential orders of the invocations also produces (no answer
\* overwritten, no question created twice, ai_questions_asked advanced once
\* per recorded answer).
C20_InterleavingsAreSerial ==
    (/\ invocations # NoInvocations
     /\ \A h \in {1, 2} : invocations.handlers[h].pc = "done")
    => [St EXCEPT !.events = <<>>]
           \in Serial(invocations.delivered, invocations.handlers[1].m,
                      invocations.handlers[2].m)
               \cup Serial(invocations.delivered, invocations.handlers[2].m,
                           invocations.handlers[1].m)

\* ------------------------------------------- a send that fails part-way
\* the review of InitReview, where a command of the clinician may meet one of
\* the Faults
FaultyClinicianMessage(bodies, faults, lim) ==
    \E c \in Clinicians, f \in faults : \E b \in Typed(c, bodies) :
        LET S == process_clinician_message(
                     Begin([St EXCEPT !.fault = f], Event("in", c, b.cmd, b.a, b.s)), c, b, 0)
        IN Bounded(S, lim) /\ Commit(S)

\* the patient writes while the review goes on
FaultyPatientMessage(faults, lim) ==
    \E p \in Patients, f \in faults :
        LET S == process_incoming_message(
                     Begin([St EXCEPT !.fault = f], Event("in", p, "hello", 0, 0)),
                     p, "hello", "ok", NoClinician)
        IN Bounded(S, lim) /\ Commit(S)

OneSession == Limits(1, 1)
OneSessionCommands == CommandBodies(1)

FaultyCommandStep == FaultyClinicianMessage(OneSessionCommands, Faults, OneSession)
\* the clinician keeps every block of the session and confirms
OneSessionWorkflowStep == ClinicianMessage(KeepBodies, NoDrift, OneSession)

FaultyPatientStep == FaultyPatientMessage({"none", "Message.create"}, OneSession)

NextFaults ==
    \/ FaultyCommandStep
    \/ OneSessionWorkflowStep
    \/ FaultyPatientStep

SpecFaults == InitReview /\ [][NextFaults]_vars

\* the commands that reach _finalize_send_to_patient
SendCommands == {"send", "confirm_send", "send_anyway"}

\* the effects of _finalize_send_to_patient on the assessment a in a step
Dispatched(a) ==
    \E i \in DOMAIN events' : events'[i].kind = "dispatch" /\ events'[i].a = a
Recorded(a) ==
    \E i \in DOMAIN events' : events'[i] = MessageCreated("CLINICIAN", a, events'[i].s)
AllOfTheSend(a) ==
    /\ Dispatched(a)
    /\ Recorded(a)
    /\ assessments'[a].status = "SENT_TO_PATIENT"
    /\ assessments'[a].sent_to_patient_at = now
    /\ conversations'[assessments[a].conversation].status = "DIRECT_MESSAGING"
NoneOfTheSend(a) ==
    /\ ~Dispatched(a)
    /\ ~Recorded(a)
    /\ assessments'[a] = assessments[a]
    /\ conversations' = conversations

\* C21: a send, confirm_send or send_anyway command leaves either all of the
\* effects of _finalize_send_to_patient (the message for the patient is
\* dispatched, the assessment is SENT_TO_PATIENT with its time, the
\* conversation is DIRECT_MESSAGING, the CLINICIAN message record exists) or
\* none of them, whatever fails on the way.
C21_SendIsAllOrNothing ==
    [][\A a \in Indices(assessments) :
          (events'[1].what \in SendCommands /\ events'[1].a = a)
              => (AllOfTheSend(a) \/ NoneOfTheSend(a))]_vars

\* C21, its last part: the message for the patient is never out while the
\* assessment is APPROVED or MODIFIED.
C21_NeverSentButUnmarked ==
    \A i \in DOMAIN events :
        events[i].kind = "dispatch" => assessments[events[i].a].status = "SENT_TO_PATIENT"

\* the AuditLog rows an invocation wrote beside the MESSAGE_RECEIVED row of
\* its inbound message
TransitionAudits ==
    {i \in DOMAIN events' : events'[i].kind = "audit" /\ events'[i].what # "MESSAGE_RECEIVED"}

\* the review status of an assessment changes in the step
ReviewStatusChanges ==
    \E a \in Indices(assessments) :
        /\ assessments'[a].status # assessments[a].status
        /\ assessments'[a].status \in {"APPROVED", "REJECTED", "MODIFIED"}
\* a conversation is escalated in the step
EscalationChanges ==
    \/ Len(escalation_alerts') # Len(escalation_alerts)
    \/ \E i \in Indices(conversations) :
          conversations'[i].is_escalated # conversations[i].is_escalated
\* assessment content goes to a patient in the step
AssessmentDispatched == \E i \in DOMAIN events' : events'[i].kind = "dispatch"

\* C22: an invocation that changes an assessment's review status, escalates a
\* conversation or dispatches an assessment to the patient writes exactly one
\* AuditLog row for it (the MESSAGE_RECEIVED row of the inbound message not
\* counted).
C22_OneAuditPerTransition ==
    [][(ReviewStatusChanges \/ EscalationChanges \/ AssessmentDispatched)
          => Cardinality(TransitionAudits) = 1]_vars

\* something failed during the invocation: a failure was logged or an
\* exception left the entry point
InvocationFailed ==
    \E i \in DOMAIN events : events[i].kind \in {"log", "raise"}

\* C23: when a step of process_incoming_message or process_clinician_message
\* fails, no exception leaves the entry point and the sender of the inbound
\* message is sent a message after the failure.
C23_FailureEndsInFallback ==
    InvocationFailed =>
        /\ \A i \in DOMAIN events : events[i].kind # "raise"
        /\ \E i, j \in DOMAIN events :
              /\ events[i].kind = "log"
              /\ i < j
              /\ events[j].kind = "out"
              /\ events[j].to = events[1].to

\* ------------------------------------- commands typed during a session
\* the review of InitReview with the clock running, where the clinician types
\* router commands and workflow replies at any prompt, the note prompt
\* included
ClinicianTypes(bodies, drift, lim) ==
    \E c \in Clinicians, d \in drift : \E b \in bodies :
        LET S == process_clinician_message(Begin(St, Event("in", c, b.cmd, b.a, b.s)), c, b, d)
        IN Bounded(S, lim) /\ Commit(S)

RouterWords == {"help", "pending", "modify"}

RouterBodies ==
    {Body("modify", 1, 0, 0, ""), Body("help", 0, 0, 0, ""), Body("pending", 0, 0, 0, ""),
     Body("1", 0, 0, 0, ""), Body("cancel", 0, 0, 0, "")}

RouterStep == ClinicianTypes(RouterBodies, ClockDrift, Aging)

NextRouter ==
    \/ RouterStep
    \/ Tick

SpecRouter == InitReview /\ [][NextRouter]_vars

\* the clinician has an IN_PROGRESS session that is not expired at time t
HasActiveSession(c, t) ==
    \E i \in Indices(mod_sessions) :
        /\ mod_sessions[i].clinician = c
        /\ mod_sessions[i].status = "IN_PROGRESS"
        /\ ~is_expired(mod_sessions[i], t)

\* the command router ran in the step: it logs the message before it parses
\* the command, and it alone answers help and pending and opens sessions
ReachedRouter ==
    \/ \E i \in DOMAIN events' :
          \/ events'[i] = AuditCreated(events'[1].to, "MESSAGE_RECEIVED", 0)
          \/ events'[i].kind = "out" /\
             events'[i].what \in {"help", "pending assessments", "MODIFYING ASSESSMENT",
                                  "Unknown command"}
    \/ Len(mod_sessions') # Len(mod_sessions)

\* C24: a message of a clinician who has an IN_PROGRESS session that is not
\* expired when the handler looks for it is handled by the modification
\* workflow, whatever its text: the command router does not run.
C24_SessionCapturesEveryMessage ==
    [][\A c \in Clinicians :
          (/\ events' # <<>>
           /\ events'[1].kind = "in"
           /\ events'[1].to = c
           /\ HasActiveSession(c, now'))
              => ~ReachedRouter]_vars

\* a router word was typed during a session and the session took it
C24_Witness ==
    /\ events # <<>>
    /\ events[1].what \in RouterWords
    /\ HasActiveSession(events[1].to, now)
    /\ \A i \in DOMAIN events : events[i].kind # "audit"

\* ------------------------------------------- a second clinician writes
\* the review of InitReview, whose assessment is assigned to c1, where a
\* second registered clinician c2 types the same commands and replies
Reviewers == {"c1", "c2"}

OwnerBodies ==
    CommandBodies(MaxModSessions)
    \cup {Body("1", 0, 0, 0, ""), Body("2", 0, 0, 0, ""), Body("confirm", 0, 0, 0, ""),
          Body("cancel", 0, 0, 0, "")}

\* one of the reviewers sends a message: at the note prompt a note or the
\* skip, elsewhere one of the bodies
ReviewerMessage(bodies, lim) ==
    \E c \in Reviewers : \E b \in Typed(c, bodies) :
        LET S == process_clinician_message(Begin(St, Event("in", c, b.cmd, b.a, b.s)), c, b, 0)
        IN Bounded(S, lim) /\ Commit(S)

OwnerStep == ReviewerMessage(OwnerBodies, Reviewing)

NextOwners == OwnerStep

SpecOwners == InitReview /\ [][NextOwners]_vars

\* the clinician the conversation of assessment a is assigned to
AssignedTo(a) == conversations[assessments[a].conversation].assigned_clinician

\* C25: a ModificationSession changes only in an invocation for a message of
\* its clinician, and is created only by the clinician its assessment is
\* assigned to; it becomes CANCELLED only when that clinician answers the
\* CONFIRM prompt with cancel (or 2, the prompt's number for cancel); an
\* assessment and its conversation change only in an invocation for a
\* message of the clinician the conversation is assigned to.
C25_OnlyTheOwnerChangesIt ==
    [][/\ \A i \in Indices(mod_sessions) :
             mod_sessions'[i] # mod_sessions[i] => events'[1].to = mod_sessions[i].clinician
       /\ \A i \in Indices(mod_sessions') \ Indices(mod_sessions) :
             /\ mod_sessions'[i].clinician = events'[1].to
             /\ AssignedTo(mod_sessions'[i].assessment) = events'[1].to
       /\ \A i \in Indices(mod_sessions) :
             (mod_sessions'[i].status = "CANCELLED" /\ mod_sessions[i].status # "CANCELLED")
                 => /\ events'[1].what \in {"cancel", "2"}
                    /\ mod_sessions[i].status = "IN_PROGRESS"
                    /\ mod_sessions[i].current_step = "CONFIRM"
       /\ \A a \in Indices(assessments) :
             (\/ assessments'[a] # assessments[a]
              \/ conversations'[assessments[a].conversation]
                    # conversations[assessments[a].conversation]
              \/ dispatch_count'[a] # dispatch_count[a])
                 => AssignedTo(a) = events'[1].to]_vars

\* a clinician named the other clinician's assessment in a command, or the
\* other clinician's COMPLETED session, and was told it was not found
C25_Witness ==
    /\ events # <<>>
    /\ events[1].what \in {"approve", "reject", "modify", "send", "confirm_send", "send_anyway"}
    /\ AssignedTo(events[1].a) # events[1].to
    /\ \E i \in Indices(mod_sessions) :
          mod_sessions[i].clinician # events[1].to /\ mod_sessions[i].status = "COMPLETED"
    /\ \E i \in DOMAIN events :
          events[i].kind = "out" /\ events[i].what \in {"Assessment not found",
                                                        "Assessment or session not found"}

\* the order of the steps of a ModificationSession
ContentSteps == {"MEDICATIONS", "RECOMMENDATIONS", "MONITORING"}
Successor(step) ==
    CASE step = "MEDICATIONS" -> "RECOMMENDATIONS"
      [] step = "RECOMMENDATIONS" -> "MONITORING"
      [] step = "MONITORING" -> "NOTES"
      [] step = "NOTES" -> "CONFIRM"
      [] OTHER -> "none"

\* C26: when the current_step of a ModificationSession changes, it changes to
\* the step that follows it in MEDICATIONS, RECOMMENDATIONS, MONITORING,
\* NOTES, CONFIRM; on a content step only keep (1) and remove-all (3) change
\* it: add, remove <index> and any other text leave it as it is.
C26_StepsAdvanceInOrder ==
    [][\A i \in Indices(mod_sessions) :
          mod_sessions'[i].current_step # mod_sessions[i].current_step
              => /\ mod_sessions'[i].current_step = Successor(mod_sessions[i].current_step)
                 /\ mod_sessions[i].current_step \in ContentSteps
                       => events'[1].what \in {"1", "3"}]_vars

\* an add, a remove or a text the step does not know was handled on a content
\* step of a session that has advanced before, and the step is still open
C26_Witness ==
    /\ events # <<>>
    /\ events[1].what \in {"add", "remove", "approve"}
    /\ \A i \in DOMAIN events : events[i].kind # "audit"
    /\ \E i \in Indices(mod_sessions) :
          /\ mod_sessions[i].status = "IN_PROGRESS"
          /\ mod_sessions[i].current_step \in {"RECOMMENDATIONS", "MONITORING"}

\* the block of the session a content step edits, and the assessment's block
\* it starts from
FieldOf(step) ==
    CASE step = "MEDICATIONS" -> "modified_otc_suggestions"
      [] step = "RECOMMENDATIONS" -> "modified_recommendations"
      [] OTHER -> "modified_monitoring_advice"
OriginalOf(step) ==
    CASE step = "MEDICATIONS" -> "otc_suggestions"
      [] step = "RECOMMENDATIONS" -> "preliminary_recommendations"
      [] OTHER -> "monitoring_advice"

\* the session the step's keep (1) was applied to: it was IN_PROGRESS on a
\* content step and has moved on
Kept(i) ==
    /\ events'[1].what = "1"
    /\ mod_sessions[i].status = "IN_PROGRESS"
    /\ mod_sessions[i].current_step \in ContentSteps
    /\ mod_sessions'[i].current_step # mod_sessions[i].current_step

\* C27: a keep on a content step leaves the step's modified block equal to
\* the assessment's original block, whatever add and remove <index> did to
\* the block before.
C27_KeepRestoresTheOriginal ==
    [][\A i \in Indices(mod_sessions) :
          Kept(i) =>
              mod_sessions'[i][FieldOf(mod_sessions[i].current_step)]
                  = assessments[mod_sessions[i].assessment][OriginalOf(mod_sessions[i].current_step)]]_vars

\* ------------------------------------------------ removing by an index
\* the review of InitReview, where the clinician opens a session and edits
\* its blocks; the event "arg" records the words after the first word of the
\* inbound message
ClinicianEdits(bodies, lim) ==
    \E c \in Clinicians : \E b \in bodies :
        LET inbound == Emit(Begin(St, Event("in", c, b.cmd, b.a, b.s)),
                            Event("arg", c, b.text, 0, 0))
            S == process_clinician_message(inbound, c, b, 0)
        IN Bounded(S, lim) /\ Commit(S)

IndexTexts == {"1", "2", "0", "-1", "9", "abc", ""}

EditBodies ==
    {Body("modify", 1, 0, 0, ""), Body("1", 0, 0, 0, ""), Body("3", 0, 0, 0, ""),
     Body("add", 0, 0, 0, CriticalMedication)}
    \cup {Body("remove", 0, 0, 0, t) : t \in IndexTexts}

EditStep == ClinicianEdits(EditBodies, Reviewing)

NextEdits == EditStep

SpecEdits == InitReview /\ [][NextEdits]_vars

\* the items of the block a content step of session i works on: the
\* session's block, or the assessment's when the session has none yet
CurrentItems(i) ==
    LET step == mod_sessions[i].current_step
        block == mod_sessions[i][FieldOf(step)]
    IN IF block = Null
       THEN Get(assessments[mod_sessions[i].assessment][OriginalOf(step)])
       ELSE Get(block)

\* the text names no item of a block of n items
OutsideTheBlock(t, n) == ~IsInt(t) \/ IntOf(t) < 1 \/ IntOf(t) > n

\* the step is a remove with the words t typed on a content step of session i
RemoveTyped(i, t) ==
    /\ events'[1].what = "remove"
    /\ events'[2] = Event("arg", events'[1].to, t, 0, 0)
    /\ mod_sessions[i].clinician = events'[1].to
    /\ mod_sessions[i].status = "IN_PROGRESS"
    /\ mod_sessions[i].current_step \in ContentSteps

\* C28: remove <index> on a content step with an index outside 1..n, n the
\* number of items of the step's block (0, a negative number, a number above
\* n, a word, nothing), leaves every ModificationSession row as it was and
\* is answered with an error message.
C28_BadIndexChangesNothing ==
    [][\A i \in Indices(mod_sessions), t \in IndexTexts :
          (RemoveTyped(i, t) /\ OutsideTheBlock(t, Len(CurrentItems(i))))
              => /\ mod_sessions' = mod_sessions
                 /\ \E j \in DOMAIN events' :
                       /\ events'[j].kind = "out"
                       /\ events'[j].what \in {"Invalid index", "Invalid format"}]_vars

\* remove 0 or remove -1 was refused on a block of two items that an add had
\* made
C28_Witness ==
    /\ Len(events) > 2
    /\ events[1].what = "remove"
    /\ events[2].what \in {"0", "-1"}
    /\ events[3] = Out(events[1].to, "Invalid index")
    /\ \E i \in Indices(mod_sessions) :
          /\ mod_sessions[i].status = "IN_PROGRESS"
          /\ mod_sessions[i].current_step = "MEDICATIONS"
          /\ Len(mod_sessions[i].modified_otc_suggestions.items) = 2

\* the step cancels session i at its CONFIRM prompt
Cancels(i) ==
    /\ events' # <<>>
    /\ events'[1].what \in {"cancel", "2"}
    /\ mod_sessions[i].status = "IN_PROGRESS"
    /\ mod_sessions[i].current_step = "CONFIRM"
    /\ mod_sessions'[i].status = "CANCELLED"

\* session i is open, or cancelled, after the step as before it
StaysUnconfirmed(i) ==
    /\ mod_sessions[i].status = "IN_PROGRESS"
    /\ ~is_expired(mod_sessions[i], now')
    /\ mod_sessions'[i].status \in {"IN_PROGRESS", "CANCELLED"}

\* C29: cancel at the CONFIRM prompt changes the status of the session to
\* CANCELLED and nothing else: no AssessmentReview is created and nothing is
\* dispatched, no other field of the session and no other row changes; the
\* assessment did not change while the session was open, so it is as it was
\* when the session started; a cancelled session never changes again and its
\* blocks are never dispatched.
C29_CancelDiscardsTheEdits ==
    [][\A i \in Indices(mod_sessions) :
          /\ Cancels(i) =>
                /\ mod_sessions' = [mod_sessions EXCEPT ![i].status = "CANCELLED"]
                /\ assessments' = assessments
                /\ conversations' = conversations
                /\ dispatch_count' = dispatch_count
                /\ \A j \in DOMAIN events' : events'[j].kind \notin {"review", "dispatch"}
          /\ StaysUnconfirmed(i) =>
                assessments'[mod_sessions[i].assessment] = assessments[mod_sessions[i].assessment]
          /\ mod_sessions[i].status = "CANCELLED" =>
                /\ mod_sessions'[i] = mod_sessions[i]
                /\ \A j \in DOMAIN events' :
                      events'[j].kind \in {"review", "dispatch"} => events'[j].s # i]_vars

\* a session whose medications were edited has been cancelled, and the
\* assessment is still waiting for its review
C29_Witness ==
    /\ events # <<>>
    /\ events[1].what = "cancel"
    /\ \E j \in DOMAIN events : events[j] = Out(events[1].to, "Modification cancelled")
    /\ \E i \in Indices(mod_sessions) :
          /\ mod_sessions[i].status = "CANCELLED"
          /\ mod_sessions[i].modified_otc_suggestions # Null
          /\ mod_sessions[i].modified_otc_suggestions
                # assessments[mod_sessions[i].assessment].otc_suggestions
          /\ assessments[mod_sessions[i].assessment].status = "PENDING_REVIEW"

\* the AssessmentReview rows the step creates
ReviewsCreated == {j \in DOMAIN events' : events'[j].kind = "review"}

\* the step confirms session i at its CONFIRM prompt
Confirms(i) ==
    /\ events' # <<>>
    /\ events'[1].kind = "in"
    /\ events'[1].to = mod_sessions[i].clinician
    /\ events'[1].what \in {"confirm", "confirm_send", "1"}
    /\ mod_sessions[i].status = "IN_PROGRESS"
    /\ mod_sessions[i].current_step = "CONFIRM"
    /\ ~is_expired(mod_sessions[i], now')

\* the three modified blocks and the notes of a session
Edits(session) ==
    <<session.modified_otc_suggestions, session.modified_recommendations,
      session.modified_monitoring_advice, session.clinician_notes>>

\* C30: confirm at the CONFIRM prompt creates one AssessmentReview, with
\* action MODIFIED and the three blocks and the notes of the session, sets
\* the assessment to MODIFIED and the session to COMPLETED; afterwards no
\* step creates a review from that session again or changes the blocks and
\* notes the review was made from.
C30_ConfirmCreatesOneReview ==
    [][\A i \in Indices(mod_sessions) :
          /\ Confirms(i) =>
                /\ Cardinality(ReviewsCreated) = 1
                /\ \A j \in ReviewsCreated :
                      events'[j] = ReviewCreated(mod_sessions[i].clinician, "MODIFIED",
                                                 mod_sessions[i].assessment, i)
                /\ Edits(mod_sessions'[i]) = Edits(mod_sessions[i])
                /\ assessments'[mod_sessions[i].assessment].status = "MODIFIED"
                /\ mod_sessions'[i].status = "COMPLETED"
          /\ mod_sessions[i].status = "COMPLETED" =>
                /\ mod_sessions'[i].status = "COMPLETED"
                /\ Edits(mod_sessions'[i]) = Edits(mod_sessions[i])
                /\ \A j \in ReviewsCreated : events'[j].s # i]_vars

\* a session with an added medication and a note has been confirmed
C30_Witness ==
    /\ events # <<>>
    /\ events[1].what = "confirm"
    /\ \E i \in Indices(mod_sessions), j \in DOMAIN events :
          /\ events[j] = ReviewCreated(events[1].to, "MODIFIED", mod_sessions[i].assessment, i)
          /\ mod_sessions[i].status = "COMPLETED"
          /\ Len(mod_sessions[i].modified_otc_suggestions.items) = 2
          /\ mod_sessions[i].clinician_notes # NoText
          /\ assessments[mod_sessions[i].assessment].status = "MODIFIED"

\* --------------------------------------------- two patients, two clinicians
\* Two onboarded patients are each answering the last triage question, and
\* two clinicians are on duty with no patient yet.  The patients finish and
\* write on, and the clinicians close consultations and go off and on duty.
AssignPatients == {"p1", "p2"}

\* the conversation of a patient who has one triage question left to answer
LastQuestionConversation(p) ==
    [NewConversation(p) EXCEPT !.status = "AI_TRIAGE_IN_PROGRESS", !.mode = "CLINICIAN",
                               !.chief_complaint = "i have a headache",
                               !.ai_questions_asked = MAX_TRIAGE_QUESTIONS - 1]

InitAssign ==
    /\ conversations = <<LastQuestionConversation("p1"), LastQuestionConversation("p2")>>
    /\ profile = [p \in AssignPatients |-> [consultation_credits |-> MaxCredits,
                                            terms_accepted |-> TRUE, age |-> 2,
                                            gender |-> "MALE"]]
    /\ triage_questions = <<AnsweredQuestion(1, 1), NewQuestion(1, "ai question", 3),
                            AnsweredQuestion(2, 1), NewQuestion(2, "ai question", 3)>>
    /\ assessments = <<>>
    /\ escalation_alerts = <<>>
    /\ payments = <<>>
    /\ availability = [c \in Reviewers |-> [status |-> "AVAILABLE", current_patient_count |-> 0]]
    /\ assignments = <<>>
    /\ mod_sessions = <<>>
    /\ dispatch_count = <<>>
    /\ now = 0
    /\ events = <<>>
    /\ invocations = NoInvocations

\* one of the patients sends a message
PatientWrites(patients, outcomes, lim) ==
    \E p \in patients, pick \in Picks(St) :
        \E g \in Generated(p, outcomes), m \in Replies(p) : Deliver("in", p, m, g, pick, lim)

\* what the clinicians type: they close a consultation, named by its
\* assessment, and go off and on duty
AssignBodies ==
    {Body("close", a, 0, 0, "") : a \in 1..2}
    \cup {Body("status", 0, 0, 0, "offline"), Body("status", 0, 0, 0, "available")}

Assigning == Limits(2, 0)

AssignPatientStep == PatientWrites(AssignPatients, GeneratorAnswers, Assigning)
AssignClinicianStep == ReviewerMessage(AssignBodies, Assigning)

NextAssign ==
    \/ AssignPatientStep
    \/ AssignClinicianStep

SpecAssign == InitAssign /\ [][NextAssign]_vars

\* ClinicianProfile.get_current_patient_count: the clinician's ACTIVE
\* PatientAssignment rows
get_current_patient_count(c) ==
    Cardinality({i \in Indices(assignments) :
                    assignments[i].clinician = c /\ assignments[i].status = "ACTIVE"})

\* the clinicians whose availability is AVAILABLE or ON_CALL
OnDuty == {c \in DOMAIN availability : availability[c].status \in {"AVAILABLE", "ON_CALL"}}

\* C31: every step that assigns a conversation to a clinician assigns it to a
\* clinician who is AVAILABLE or ON_CALL and who has, among the clinicians who
\* are, the least number of ACTIVE patient assignments at that time.
C31_AssignsTheLeastLoaded ==
    [][\A cid \in Indices(conversations) :
          conversations'[cid].assigned_clinician # conversations[cid].assigned_clinician
              => /\ conversations'[cid].assigned_clinician \in OnDuty
                 /\ \A d \in OnDuty :
                       get_current_patient_count(conversations'[cid].assigned_clinician)
                           <= get_current_patient_count(d)]_vars

\* ------------------------------------------------ waiting for a clinician
\* The first consultation of SpecPayment, where every message that arrives is
\* handled: each webhook delivery is one handler invocation that runs to its
\* end, so a step that stays possible is eventually taken.
SpecWaiting ==
    /\ Init
    /\ [][NextPayment]_vars
    /\ WF_vars(PaidPatientStep)
    /\ WF_vars(PaymentStep)
    /\ WF_vars(AvailabilityStep)

\* the conversation was finalized with no clinician on duty
Unassigned(cid) ==
    /\ cid \in Indices(conversations)
    /\ conversations[cid].status = "PENDING_CLINICIAN_REVIEW"
    /\ conversations[cid].assigned_clinician = NoClinician

\* the conversation has a clinician
Assigned(cid) ==
    /\ cid \in Indices(conversations)
    /\ conversations[cid].assigned_clinician # NoClinician

\* C32: a conversation that is PENDING_CLINICIAN_REVIEW without a clinician
\* while a clinician is AVAILABLE or ON_CALL is eventually assigned to a
\* clinician by the platform's own steps.
C32_WaitingSessionIsAssigned ==
    \A cid \in 1..MaxConversations : (Unassigned(cid) /\ OnDuty # {}) ~> Assigned(cid)

\* C32, its first part: a finalization with no clinician on duty assigns
\* nobody and leaves the conversation PENDING_CLINICIAN_REVIEW; what the code
\* does after it: no step gives a waiting conversation a clinician or another
\* status.
C32_WaitingSessionStaysAsItIs ==
    [][/\ \A cid \in Indices(conversations) :
             (/\ OnDuty = {}
              /\ conversations[cid].status # "PENDING_CLINICIAN_REVIEW"
              /\ conversations'[cid].status = "PENDING_CLINICIAN_REVIEW")
                 => /\ conversations'[cid].assigned_clinician = NoClinician
                    /\ assignments' = assignments
       /\ \A cid \in Indices(conversations) :
             Unassigned(cid) => conversations'[cid] = conversations[cid]]_vars

\* the statuses whose prompt asks the patient for one of a few inputs
PromptingStatuses ==
    {"AWAITING_ACCEPTANCE", "MODE_SELECTION", "ESCALATION_CONSENT", "AWAITING_PATIENT_PROFILE"}

\* the text m is an input the prompt of the status asks for; prof is the
\* patient's profile, which tells what the profile prompt asks for
ValidInput(status, prof, m) ==
    CASE status = "AWAITING_ACCEPTANCE" -> Upper(m) \in {"GET STARTED", "DECLINE"}
      [] status = "MODE_SELECTION" -> m \in {"1", "2"}
      [] status = "ESCALATION_CONSENT" -> Upper(m) \in {"YES", "NO"}
      [] status = "AWAITING_PATIENT_PROFILE" ->
           IF prof.age = 0 THEN IsInt(m) /\ 0 < IntOf(m) /\ IntOf(m) < 150
           ELSE IF prof.gender = "" THEN Upper(m) \in {"MALE", "FEMALE", "OTHER"}
           ELSE m # "" /\ TextLen(m) > 3 /\ Lower(m) \notin {"hi", "hello", "hey"}
      [] OTHER -> TRUE

\* the step handles a message of patient p that is not a valid input for the
\* status of the patient's conversation, one of statuses
InvalidInput(p, statuses) ==
    /\ events' # <<>>
    /\ events'[1].kind \in {"in", "again"}
    /\ events'[1].to = p
    /\ ActiveConversations(St, p) # {}
    /\ conversations[Max(ActiveConversations(St, p))].status \in statuses
    /\ ~ValidInput(conversations[Max(ActiveConversations(St, p))].status, profile[p],
                   events'[1].what)

\* the step leaves the conversation's status and mode and the profile as they
\* were and sends the patient a message
Reprompted(p) ==
    LET cid == Max(ActiveConversations(St, p))
    IN /\ conversations'[cid].status = conversations[cid].status
       /\ conversations'[cid].mode = conversations[cid].mode
       /\ profile'[p] = profile[p]
       /\ \E i \in DOMAIN events' : events'[i].kind = "out" /\ events'[i].to = p

\* C33: in AWAITING_ACCEPTANCE, MODE_SELECTION, ESCALATION_CONSENT and
\* AWAITING_PATIENT_PROFILE a patient message that is not a valid input for
\* the status leaves the conversation's status and mode and the patient's
\* profile unchanged, and a message is sent to the patient.
C33_InvalidInputIsReprompted ==
    [][\A p \in Patients : InvalidInput(p, PromptingStatuses) => Reprompted(p)]_vars

\* C33 for the statuses other than AWAITING_ACCEPTANCE
C33_AfterAcceptanceReprompted ==
    [][\A p \in Patients :
          InvalidInput(p, PromptingStatuses \ {"AWAITING_ACCEPTANCE"}) => Reprompted(p)]_vars

\* the step handles a non-empty answer of patient p whose conversation cid is
\* in triage with more than one question still to come
AnswersBelowLimit(p, cid) ==
    /\ events' # <<>>
    /\ events'[1].kind \in {"in", "again"}
    /\ events'[1].to = p
    /\ events'[1].what # ""
    /\ ActiveConversations(St, p) # {}
    /\ cid = Max(ActiveConversations(St, p))
    /\ conversations[cid].status = "AI_TRIAGE_IN_PROGRESS"
    /\ conversations[cid].ai_questions_asked + 1 < MAX_TRIAGE_QUESTIONS

\* the messages the step sends to p
SentTo(p) == {i \in DOMAIN events' : events'[i].kind = "out" /\ events'[i].to = p}

\* C34: a step that handles a non-empty answer in AI_TRIAGE_IN_PROGRESS below
\* the question limit stores the answer in the open TriageQuestion, creates
\* one new TriageQuestion and sends the patient exactly one message, which is
\* that question and is not empty, whatever the generator does (its own text,
\* or one of the two fixed fallback questions when it raises or returns
\* nothing); the conversation stays in triage with one more question asked.
C34_AnswerIsFollowedByAQuestion ==
    [][\A p \in Patients, cid \in Indices(conversations) :
          AnswersBelowLimit(p, cid) =>
              /\ Unprocessed(St, cid) # {}
              /\ triage_questions'[FirstUnprocessed(St, cid)].patient_response = events'[1].what
              /\ triage_questions'[FirstUnprocessed(St, cid)].response_processed
              /\ Len(triage_questions') = Len(triage_questions) + 1
              /\ triage_questions'[Len(triage_questions')].conversation = cid
              /\ ~triage_questions'[Len(triage_questions')].response_processed
              /\ Cardinality(SentTo(p)) = 1
              /\ \A i \in SentTo(p) :
                    /\ events'[i].what = triage_questions'[Len(triage_questions')].question_text
                    /\ events'[i].what \in {"ai question", EngineNextFallback, HandlerEmptyFallback}
              /\ conversations'[cid].status = "AI_TRIAGE_IN_PROGRESS"
              /\ conversations'[cid].ai_questions_asked
                    = conversations[cid].ai_questions_asked + 1]_vars

\* an answer was given while the generator returned nothing, and the fixed
\* question of the handler went out as the next triage question
C34_Witness ==
    /\ Len(events) > 2
    /\ events[1].kind = "in"
    /\ events[1].what # ""
    /\ events[Len(events)] = Out(events[1].to, HandlerEmptyFallback)
    /\ \E cid \in Indices(conversations) :
          /\ conversations[cid].status = "AI_TRIAGE_IN_PROGRESS"
          /\ conversations[cid].ai_questions_asked = 2
          /\ triage_questions[Len(triage_questions)]
                = NewQuestion(cid, HandlerEmptyFallback, 3)
          /\ \E q \in Indices(triage_questions) :
                /\ triage_questions[q].conversation = cid
                /\ triage_questions[q].response_processed
                /\ triage_questions[q].patient_response = events[1].what

\* the same with the generator raising: the fixed question of the engine
C34_WitnessRaise ==
    /\ Len(events) > 2
    /\ events[1].kind = "in"
    /\ events[Len(events)] = Out(events[1].to, EngineNextFallback)
    /\ \E cid \in Indices(conversations) :
          /\ conversations[cid].status = "AI_TRIAGE_IN_PROGRESS"
          /\ conversations[cid].ai_questions_asked = 2

\* what _generate_assessment sends when generation fails
GenerationError(p) == Out(p, "error generating results")

\* the step handles a message of patient p for the conversation cid, which is
\* in triage
InTriage(p, cid) ==
    /\ events' # <<>>
    /\ events'[1].kind \in {"in", "again"}
    /\ events'[1].to = p
    /\ ActiveConversations(St, p) # {}
    /\ cid = Max(ActiveConversations(St, p))
    /\ conversations[cid].status = "AI_TRIAGE_IN_PROGRESS"

\* generation was attempted in the step: it made an Assessment or failed
GenerationAttempted(p) ==
    \/ Len(assessments') # Len(assessments)
    \/ \E i \in DOMAIN events' : events'[i] = GenerationError(p)

\* generation has failed for the conversation: the last answer was counted
\* and there is no Assessment
GenerationHasFailed(cid) ==
    /\ conversations[cid].status = "AI_TRIAGE_IN_PROGRESS"
    /\ conversations[cid].ai_questions_asked >= MAX_TRIAGE_QUESTIONS
    /\ \A a \in Indices(assessments) : assessments[a].conversation # cid

\* C35, its first part: a step in which generation fails sends the patient the
\* error message, creates no Assessment and leaves the conversation in triage.
C35_FailureIsReported ==
    [][\A p \in Patients, cid \in Indices(conversations) :
          (/\ InTriage(p, cid)
           /\ events'[1].what # ""
           /\ conversations[cid].ai_questions_asked + 1 >= MAX_TRIAGE_QUESTIONS
           /\ Len(assessments') = Len(assessments))
              => /\ events'[Len(events')] = GenerationError(p)
                 /\ assessments' = assessments
                 /\ conversations'[cid].status = "AI_TRIAGE_IN_PROGRESS"]_vars

\* C35: once generation has failed for a conversation, a later message of the
\* patient does not make the platform attempt it again.
C35_FailedGenerationIsNotRetried ==
    [][\A p \in Patients, cid \in Indices(conversations) :
          (InTriage(p, cid) /\ GenerationHasFailed(cid)) => ~GenerationAttempted(p)]_vars

\* C36: a conversation whose status is CLOSED, COMPLETED or ESCALATED keeps
\* that status in every later step.
C36_TerminalStatusIsFinal ==
    [][\A cid \in Indices(conversations) :
          ~is_active(conversations[cid])
              => conversations'[cid].status = conversations[cid].status]_vars

\* C36 for the steps that are not clinician commands: no patient message and
\* no payment confirmation changes the status of such a conversation.
C36_PatientAndPaymentLeaveItClosed ==
    [][\A cid \in Indices(conversations) :
          (~is_active(conversations[cid]) /\ events'[1].to \in Patients)
              => conversations'[cid].status = conversations[cid].status]_vars

\* C37: every step that dispatches an assessment to the patient finds its
\* review status APPROVED or MODIFIED.
C37_DispatchNeedsApproval ==
    [][\A i \in DOMAIN events' :
          events'[i].kind = "dispatch"
              => assessments[events'[i].a].status \in {"APPROVED", "MODIFIED"}]_vars

\* C37, its particular case: no step dispatches an assessment whose review
\* status is REJECTED.
C37_RejectedIsNeverDispatched ==
    [][\A i \in DOMAIN events' :
          events'[i].kind = "dispatch" => assessments[events'[i].a].status # "REJECTED"]_vars

\* the credits the step adds to the balance of p: those of the packages of
\* the payments of p that become SUCCESS in it
RECURSIVE CreditsOf(_, _)
CreditsOf(p, txs) ==
    IF txs = {} THEN 0
    ELSE LET tx == CHOOSE x \in txs : TRUE
         IN Packages[payments[tx].package] + CreditsOf(p, txs \ {tx})

CreditsAdded(p) ==
    CreditsOf(p, {tx \in Indices(payments) :
                     /\ payments[tx].user = p
                     /\ payments[tx].status # "SUCCESS"
                     /\ payments'[tx].status = "SUCCESS"})

\* the conversations of p that become PENDING_CLINICIAN_REVIEW in the step
\* (finalize_consultation_flow alone sets that status)
Finalized(p) ==
    {cid \in Indices(conversations') :
        /\ conversations'[cid].patient = p
        /\ conversations'[cid].status = "PENDING_CLINICIAN_REVIEW"
        /\ cid \in Indices(conversations) => conversations[cid].status # "PENDING_CLINICIAN_REVIEW"}

\* finalize_consultation_flow for a patient whose balance is zero returns the
\* state it was given, whatever the conversation and the assessment
ZeroCreditsChangeNothing ==
    \A p \in Patients :
        profile[p].consultation_credits = 0 =>
            \A cid \in Indices(conversations), aid \in Indices(assessments), pick \in Picks(St) :
                finalize_consultation_flow(St, p, cid, aid, pick) = St

\* C38: no balance is ever negative; in every step the balance of a patient
\* changes by the credits bought in the step less one credit for each
\* conversation that becomes PENDING_CLINICIAN_REVIEW in it, and at most
\* one conversation does; and finalize_consultation_flow with a balance of
\* zero changes nothing, in every state the platform reaches.
C38_OneCreditPerConsultation ==
    /\ [](\A p \in Patients : profile[p].consultation_credits >= 0)
    /\ []ZeroCreditsChangeNothing
    /\ [][\A p \in Patients :
             /\ Cardinality(Finalized(p)) <= 1
             /\ profile'[p].consultation_credits
                   = profile[p].consultation_credits + CreditsAdded(p)
                       - Cardinality(Finalized(p))]_vars

\* a payment of the package of two credits has resumed the parked
\* consultation: the conversation is with the clinician and one credit of the
\* two is left
C38_Witness ==
    /\ events # <<>>
    /\ events[1].kind = "paid"
    /\ \E tx \in Indices(payments), cid \in Indices(conversations) :
          /\ payments[tx].status = "SUCCESS"
          /\ Packages[payments[tx].package] = 2
          /\ conversations[cid].patient = payments[tx].user
          /\ conversations[cid].status = "PENDING_CLINICIAN_REVIEW"
          /\ conversations[cid].is_paid
          /\ profile[payments[tx].user].consultation_credits = 1

\* a consultation is parked for payment with a balance of zero: the state
\* in which finalize_consultation_flow would change nothing
C38_WitnessZero ==
    \E cid \in Indices(conversations), aid \in Indices(assessments) :
        /\ conversations[cid].status = "PENDING_PAYMENT"
        /\ assessments[aid].conversation = cid
        /\ assessments[aid].status = "PENDING_PAYMENT"
        /\ profile[conversations[cid].patient].consultation_credits = 0

\* ------------------------------------------- blocks of a completed session
\* the three modified blocks of a session
ModifiedBlocks(session) ==
    <<session.modified_otc_suggestions, session.modified_recommendations,
      session.modified_monitoring_advice>>

\* every modified block of the session is set to a non-empty dict
BlocksAreSet(session) ==
    \A k \in 1..3 : ModifiedBlocks(session)[k] # Null /\ Truthy(ModifiedBlocks(session)[k])

\* the dispatches of the step that carry a ModificationSession
SessionDispatches ==
    {i \in DOMAIN events' : events'[i].kind = "dispatch" /\ events'[i].s # 0}

\* C39: every ModificationSession whose status is COMPLETED has its three
\* modified blocks set: none is null, and each is a non-empty dict, so that
\* "modified block or original block" in _finalize_send_to_patient takes the
\* modified block; every dispatch that carries a session carries a COMPLETED
\* one and so never falls back to the assessment's block.
C39_CompletedSessionHasItsBlocks ==
    /\ [](\A i \in Indices(mod_sessions) :
             mod_sessions[i].status = "COMPLETED" =>
                 BlocksAreSet(mod_sessions[i]))
    /\ [][\A i \in SessionDispatches :
             /\ events'[i].s \in Indices(mod_sessions)
             /\ mod_sessions[events'[i].s].status = "COMPLETED"
             /\ BlocksAreSet(mod_sessions[events'[i].s])]_vars

\* a completed session whose medications were all removed, whose other
\* blocks were kept, has been dispatched
C39_Witness ==
    \E j \in DOMAIN events :
       /\ events[j].kind = "dispatch"
       /\ events[j].s \in Indices(mod_sessions)
       /\ LET session == mod_sessions[events[j].s]
              assessment == assessments[session.assessment]
          IN /\ session.status = "COMPLETED"
             /\ session.modified_otc_suggestions = Block(<<>>)
             /\ assessment.otc_suggestions # Block(<<>>)
             /\ session.modified_recommendations = assessment.preliminary_recommendations

\* a session is COMPLETED whose assessment stores {} for a block: keeping
\* it has written the dict with the empty list
C39_WitnessEmptyOriginal ==
    \E i \in Indices(mod_sessions) :
       /\ mod_sessions[i].status = "COMPLETED"
       /\ assessments[mod_sessions[i].assessment].monitoring_advice = EmptyDict
       /\ mod_sessions[i].modified_monitoring_advice = Block(<<>>)

\* ------------------------------ one payment confirmed twice at one time
\* The payment provider posts the webhook and redirects the browser to the
\* success page for one transaction reference, and a web worker runs
\* activate_subscription for each.  Neither view takes a lock or opens a
\* transaction, so the database accesses of the two invocations interleave:
\* each access is one step.  An invocation keeps its own copies of the rows
\* it has read (history.user.patient_profile is cached on the instance, and
\* finalize_consultation_flow is handed the same user) and writes a copy
\* back in save().
\* the conversation _generate_assessment has parked for a patient without
\* credits
ParkedConversation(p) ==
    [NewConversation(p) EXCEPT !.status = "PENDING_PAYMENT", !.mode = "CLINICIAN",
                               !.chief_complaint = "i have a headache",
                               !.ai_questions_asked = MAX_TRIAGE_QUESTIONS]

\* an invocation of activate_subscription(tx_ref) by a view: where it is
\* (pc), the balance of its copy of the profile, the pending assessment it has found
\* (0: none), its copy of the conversation row, the clinician it has picked,
\* what activate_subscription returns (msg) and whether
\* finalize_consultation_flow has returned True
Activation(view, tx_ref, conv) ==
    [clinician |-> NoClinician, conversation |-> conv, tx_ref |-> tx_ref, msg |-> "",
     pending |-> 0, pc |-> "get", view |-> view, balance |-> 0, finalized |-> FALSE]

InitActivation ==
    /\ conversations = <<ParkedConversation("p1")>>
    /\ profile = [p \in Patients |-> [consultation_credits |-> 0, terms_accepted |-> TRUE,
                                      age |-> 2, gender |-> "MALE"]]
    /\ triage_questions = <<AnsweredQuestion(1, 1), AnsweredQuestion(1, 3)>>
    /\ assessments = <<[otc_suggestions |-> GeneratedPayload.otc_suggestions,
                        preliminary_recommendations |->
                            GeneratedPayload.preliminary_recommendations,
                        monitoring_advice |-> GeneratedPayload.monitoring_advice,
                        likely_condition |-> GeneratedPayload.likely_condition,
                        status |-> "PENDING_PAYMENT", patient |-> "p1", conversation |-> 1,
                        sent_to_patient_at |-> -1]>>
    /\ escalation_alerts = <<>>
    /\ \E pkg \in DOMAIN Packages :
          payments = <<[status |-> "PENDING", user |-> "p1", package |-> pkg]>>
    /\ \E status \in {"AVAILABLE", "OFFLINE"} :
          availability = [c \in Clinicians |-> [status |-> status, current_patient_count |-> 0]]
    /\ assignments = <<>>
    /\ mod_sessions = <<>>
    /\ dispatch_count = <<0>>
    /\ now = 0
    /\ events = <<>>
    /\ \E tx_ref \in Indices(payments) :
          invocations = [delivered |-> St,
                         handlers |-> <<Activation("webhook", tx_ref, conversations[1]),
                                        Activation("redirect", tx_ref, conversations[1])>>]

\* PaymentHistory.objects.get(reference=tx_ref) and the test of its status
GetHistory ==
    \E h \in {1, 2} :
        LET inv == invocations.handlers[h]
        IN /\ inv.pc = "get"
           /\ IF payments[inv.tx_ref].status = "SUCCESS"
              THEN Proceed(St, h, [inv EXCEPT !.msg = "Already processed", !.pc = "done"])
              ELSE Proceed(St, h, [inv EXCEPT !.pc = "mark"])

\* history.save() with status SUCCESS
SaveHistory ==
    \E h \in {1, 2} :
        LET inv == invocations.handlers[h]
        IN /\ inv.pc = "mark"
           /\ Proceed([St EXCEPT !.payments[inv.tx_ref].status = "SUCCESS"], h,
                      [inv EXCEPT !.pc = "profile"])

\* profile = history.user.patient_profile: the row is read
ReadProfile ==
    \E h \in {1, 2} :
        LET inv == invocations.handlers[h]
            p == payments[inv.tx_ref].user
        IN /\ inv.pc = "profile"
           /\ Proceed(St, h, [inv EXCEPT !.balance = profile[p].consultation_credits,
                                         !.pc = "add"])

\* profile.consultation_credits += credits_to_add on the copy; profile.save()
SaveProfile ==
    \E h \in {1, 2} :
        LET inv == invocations.handlers[h]
            p == payments[inv.tx_ref].user
            balance == inv.balance + Packages[payments[inv.tx_ref].package]
        IN /\ inv.pc = "add"
           /\ Proceed([St EXCEPT !.profile[p].consultation_credits = balance], h,
                      [inv EXCEPT !.balance = balance, !.pc = "pending"])

\* the PENDING_PAYMENT assessments of the patient are queried; with none,
\* activate_subscription returns "Credits Added" and the view sends the
\* confirmation
FindPending ==
    \E h \in {1, 2} :
        LET inv == invocations.handlers[h]
            p == payments[inv.tx_ref].user
        IN /\ inv.pc = "pending"
           /\ IF PendingPaymentAssessments(St, p) = {}
              THEN Proceed(Send(St, p, "PAYMENT SUCCESSFUL"), h,
                           [inv EXCEPT !.msg = "Credits Added", !.pc = "done"])
              ELSE Proceed(St, h, [inv EXCEPT !.pending = Min(PendingPaymentAssessments(St, p)),
                                              !.pc = "fetch"])

\* conversation = pending_assessment.conversation: the row is read
FetchConversation ==
    \E h \in {1, 2} :
        LET inv == invocations.handlers[h]
        IN /\ inv.pc = "fetch"
           /\ Proceed(St, h,
                      [inv EXCEPT !.conversation =
                                      conversations[assessments[inv.pending].conversation],
                                  !.pc = "deduct"])

\* finalize_consultation_flow: the balance of the copy is tested and
\* decremented, profile.save()
DeductCredit ==
    \E h \in {1, 2} :
        LET inv == invocations.handlers[h]
            p == payments[inv.tx_ref].user
        IN /\ inv.pc = "deduct"
           /\ IF inv.balance > 0
              THEN Proceed([St EXCEPT !.profile[p].consultation_credits = inv.balance - 1], h,
                           [inv EXCEPT !.balance = inv.balance - 1, !.pc = "assessment"])
              ELSE Proceed(St, h, [inv EXCEPT !.msg = "Resumed Flow", !.pc = "done"])

\* assessment.save() with status PENDING_REVIEW
SaveAssessment ==
    \E h \in {1, 2} :
        LET inv == invocations.handlers[h]
        IN /\ inv.pc = "assessment"
           /\ Proceed([St EXCEPT !.assessments[inv.pending].status = "PENDING_REVIEW"], h,
                      [inv EXCEPT !.pc = "conversation"])

\* conversation.save() with status PENDING_CLINICIAN_REVIEW and is_paid:
\* every field of the copy is written
SavePaidConversation ==
    \E h \in {1, 2} :
        LET inv == invocations.handlers[h]
            cid == assessments[inv.pending].conversation
            conv == [inv.conversation EXCEPT !.status = "PENDING_CLINICIAN_REVIEW",
                                             !.is_paid = TRUE]
        IN /\ inv.pc = "conversation"
           /\ Proceed([St EXCEPT !.conversations[cid] = conv], h,
                      [inv EXCEPT !.conversation = conv, !.pc = "assign"])

\* _assign_clinician: the availability rows are queried and, with a
\* clinician on duty, conversation.save() writes the copy with the clinician;
\* with none, the summary is sent and finalize_consultation_flow returns True
QueryAvailability ==
    \E h \in {1, 2}, pick \in Picks(St) :
        LET inv == invocations.handlers[h]
            p == payments[inv.tx_ref].user
            cid == assessments[inv.pending].conversation
            conv == [inv.conversation EXCEPT !.assigned_clinician = pick]
        IN /\ inv.pc = "assign"
           /\ IF AssignableClinicians(St) = {}
              THEN Proceed(Send(St, p, "PAYMENT CONFIRMED"), h,
                           [inv EXCEPT !.msg = "Resumed Flow", !.finalized = TRUE,
                                       !.pc = "done"])
              ELSE Proceed([St EXCEPT !.conversations[cid] = conv], h,
                           [inv EXCEPT !.conversation = conv, !.clinician = pick,
                                       !.pc = "assignment"])

\* PatientAssignment.objects.create, notify_new_patient and the summary to
\* the patient; finalize_consultation_flow returns True
CreateAssignment ==
    \E h \in {1, 2} :
        LET inv == invocations.handlers[h]
            p == payments[inv.tx_ref].user
            cid == assessments[inv.pending].conversation
            S1 == [St EXCEPT !.assignments = Append(@, [status |-> "ACTIVE", patient |-> p,
                                                        clinician |-> inv.clinician,
                                                        conversation |-> cid])]
        IN /\ inv.pc = "assignment"
           /\ Proceed(Send(notify_new_patient(S1, inv.clinician), p, "PAYMENT CONFIRMED"), h,
                      [inv EXCEPT !.msg = "Resumed Flow", !.finalized = TRUE, !.pc = "done"])

NextActivation ==
    \/ GetHistory
    \/ SaveHistory
    \/ ReadProfile
    \/ SaveProfile
    \/ FindPending
    \/ FetchConversation
    \/ DeductCredit
    \/ SaveAssessment
    \/ SavePaidConversation
    \/ QueryAvailability
    \/ CreateAssignment

SpecActivation == InitActivation /\ [][NextActivation]_vars

\* both invocations have returned
BothReturned ==
    /\ invocations # NoInvocations
    /\ \A h \in {1, 2} : invocations.handlers[h].pc = "done"

\* the transaction reference the two views were called with
PaidReference == invocations.handlers[1].tx_ref

\* the invocations whose finalize_consultation_flow has returned True
Finalizing == {h \in {1, 2} : invocations.handlers[h].finalized}

\* C40: when the webhook and the success redirect have both processed one
\* transaction reference, in every interleaving the package's credits have
\* been added to the balance exactly once and the pending consultation has
\* been finalized at most once: at most one invocation deducted a credit
\* and assigned a clinician, there is at most one PatientAssignment row, and
\* the balance is the balance before plus the package's credits minus the
\* credit of the finalization.
C40_CreditedOnceFinalizedOnce ==
    BothReturned =>
        LET before == invocations.delivered
            p == payments[PaidReference].user
        IN /\ Cardinality(Finalizing) <= 1
           /\ Len(assignments) <= Len(before.assignments) + 1
           /\ profile[p].consultation_credits =
                  before.profile[p].consultation_credits
                  + Packages[payments[PaidReference].package] - Cardinality(Finalizing)

\* the second part alone: the consultation is finalized at most once
C40_FinalizedAtMostOnce ==
    BothReturned => Cardinality(Finalizing) <= 1 /\ Len(assignments) <= 1

\* the first part alone: the balance has grown by the package's credits,
\* less one credit for each finalization
C40_CreditsAddedOnce ==
    BothReturned =>
        LET p == payments[PaidReference].user
        IN profile[p].consultation_credits =
               invocations.delivered.profile[p].consultation_credits
               + Packages[payments[PaidReference].package] - Cardinality(Finalizing)

\* when one invocation finds the payment already processed, the database
\* is in the state the one sequential confirmation produces
C40_SerialRunsAgree ==
    (BothReturned /\ \E h \in {1, 2} : invocations.handlers[h].msg = "Already processed")
    => /\ C40_CreditedOnceFinalizedOnce
       /\ [St EXCEPT !.events = <<>>]
             \in {[payment_confirmed(invocations.delivered, PaidReference, pick)
                      EXCEPT !.events = <<>>] : pick \in Picks(invocations.delivered)}

====
